---------------------------- MODULE Spec2Model ----------------------------
(***************************************************************************)
(* A model of the Sample / Block / Tree aggregation code of Galapago-FWK.  *)
(*                                                                         *)
(*   Spec         one coffea Sample (include/Sample_coffea.py): its        *)
(*                construction, its selection list, getYield and getHist.  *)
(*   SpecTree     one ROOT Tree (include/Sample.py): parsing a definitions *)
(*                file into Blocks of Samples, then Block.getTH1F,         *)
(*                Tree.getTH1F and Tree.getYields.                         *)
(*   SpecCombine  merging histogram objects: combineHistograms and the     *)
(*                Clone/Add loop of Block.getTH1F.                         *)
(*   SpecTreeUse  a parsed Tree in use: Tree.setSelection, Tree.getStack   *)
(*                and the histogram requests after them.                   *)
(*   SpecResolve  resolving the files of a Sample: queryDAS,               *)
(*                getCachedDASFiles and its cache file, Sample._loadFiles  *)
(*                and the head of Sample._loadEvents.                      *)
(*   SpecRace     two processes in getCachedDASFiles at the same time.     *)
(*   SpecDimuon   computeDimuonMass (include/auxiliar.py).                 *)
(*                                                                         *)
(* Numbers.  Python floats are modelled by exact rationals [n, d] in       *)
(* lowest terms with d > 0, so rounding is not modelled.  An uncertainty   *)
(* sqrt(s) is carried as its square s (field unc2, field w2 of a bin).     *)
(***************************************************************************)
EXTENDS Integers, Sequences, FiniteSets, TLC

(***************************************************************************)
(* Bounds of the model.                                                    *)
(***************************************************************************)
MaxEvents == 2
MaxSel == 2
MaxLines == 3
MaxObjects == 5
MaxMuEvents == 3
MaxTreeSel == 2

(***************************************************************************)
(* Exact rational arithmetic.                                              *)
(***************************************************************************)
Abs(x) == IF x < 0 THEN -x ELSE x

RECURSIVE GCD(_, _)
GCD(a, b) == IF b = 0 THEN a ELSE GCD(b, a % b)

Rat(n, d) ==
  LET g == GCD(Abs(n), Abs(d))
      s == IF d < 0 THEN -1 ELSE 1
  IN  [n |-> (s * n) \div g, d |-> (s * d) \div g]

RatInt(k) == [n |-> k, d |-> 1]
RatZero == RatInt(0)
RatOne == RatInt(1)
RatAdd(a, b) == Rat(a.n * b.d + b.n * a.d, a.d * b.d)
RatMul(a, b) == Rat(a.n * b.n, a.d * b.d)
RatSq(a) == RatMul(a, a)

RECURSIVE RatSum(_)
RatSum(s) == IF s = <<>> THEN RatZero ELSE RatAdd(Head(s), RatSum(Tail(s)))

RECURSIVE IntSum(_)
IntSum(s) == IF s = <<>> THEN 0 ELSE Head(s) + IntSum(Tail(s))

RECURSIVE Concat(_)
Concat(ss) == IF ss = <<>> THEN <<>> ELSE Head(ss) \o Concat(Tail(ss))

Map(f(_), s) == [i \in 1..Len(s) |-> f(s[i])]

SeqsUpTo(S, n) == UNION {[1..k -> S] : k \in 0..n}

(***************************************************************************)
(* The inputs: what the files hold and what a caller passes.               *)
(***************************************************************************)
\* genWeight of a simulated event (generators produce negative weights too)
GenWeights == {-1, 2}
\* Muon.pt of an event: one entry per muon
MuonLists == {<<>>, <<3, 1>>}
\* an event as loaded from a file
RawEvents == [genWeight : GenWeights, Muon : MuonLists]
\* what getCachedDASFiles may answer: the k files the catalog names, in
\* catalog order (a file is named by its position in the catalog's answer)
DasAnswers == {<<>>, <<1>>, <<1, 2>>}
\* a data file has no genWeight branch: the field is held at 0 and never read
EventsOf(isdata) ==
  IF isdata THEN [genWeight : {0}, Muon : MuonLists] ELSE RawEvents
\* cross-sections of simulated samples; a data sample is built with the
\* default, 1
XSections == {6}
Lumis == {1, 2}
FileLimits == {0, 1}

\* selection strings, evaluated by eval() against the current event view
CutNum == "ak.num(events.Muon) >= 1"
CutPt0 == "events.Muon.pt[:, 0] > 1"
CutTrue == "events.event >= 0"
CutFalse == "events.event < 0"
Cuts == {CutNum, CutPt0, CutTrue, CutFalse}

\* variable and weight expressions of getHist
VarPt == "events.Muon.pt"
VarNum == "ak.num(events.Muon)"
Vars == {VarPt, VarNum}
NoWeight == "None"
Weights == {NoWeight, VarPt}
\* hist.axis.Regular(bins, lo, hi)
AxisFull == [bins |-> 2, lo |-> 0, hi |-> 4]
AxisPart == [bins |-> 1, lo |-> 2, hi |-> 4]
Axes == {AxisFull, AxisPart}

VARIABLES
  pc,            \* position of the Sample: "new", "loading", "ready", "failed"
  isData,        \* Sample.isData
  xSection,      \* Sample.xSection
  file_paths,    \* Sample.file_paths
  all_events,    \* _loadEvents: the per-file event arrays loaded so far
  nloaded,       \* _loadEvents: how many of file_paths the loop has visited
  events,        \* Sample.events (after _setupWeights: with eventWeight)
  nevents,       \* Sample.nevents
  sum_genweight, \* Sample.sum_genweight
  lum_weight,    \* _setupWeights: lum_weight, the normalization weight
  selections,    \* Sample.selections
  op,            \* the last call made on the Sample
  ret,           \* what that call returned or raised
  \* a Tree of include/Sample.py
  tree_pc,       \* position of Tree.__init__: "parse", "ready", "failed"
  tree_lines,    \* the lines of the definitions file
  tree_i,        \* parseFileName: the lines read so far
  tree_limit,    \* Tree.file_limit
  blocks,        \* Tree.blocks
  tree_op,       \* the last call made on the Tree or one of its Blocks
  tree_ret,      \* what that call returned or raised
  tree_sels,     \* the selections Tree.setSelection was called with, in call order
                 \* (the Tree keeps no such list; it is the history the
                 \* properties of later histograms are stated with)
  \* histogram objects and their merges
  heap,          \* the histogram objects that exist, by identity
  orig,          \* the values the input histograms were created with
  leaves,        \* per object, how often each input histogram went into it
  comb_op,       \* the last merge call
  comb_ret,      \* what that call returned or raised
  \* resolving the files of a Sample
  das_cache,     \* per dataset, its cache file under .das_cache
  res_op,        \* the last resolution call
  res_ret,       \* what that call returned or raised
  \* two processes in getCachedDASFiles
  race_pc,       \* per process, its position in getCachedDASFiles
  race_file,     \* the cache file the two share
  race_files,    \* per process, its variable files
  race_list,     \* the list the catalog answers with
  \* computeDimuonMass
  mu_pc,         \* "loaded", "done", "raised"
  mu_events,     \* sample.events
  mu_ret         \* what computeDimuonMass returned or raised

sampleVars == <<pc, isData, xSection, file_paths, all_events, nloaded, events,
                nevents, sum_genweight, lum_weight, selections, op, ret>>
treeVars == <<tree_pc, tree_lines, tree_i, tree_limit, blocks, tree_op, tree_ret, tree_sels>>
combVars == <<heap, orig, leaves, comb_op, comb_ret>>
resVars == <<das_cache, res_op, res_ret>>
raceVars == <<race_pc, race_file, race_files, race_list>>
muVars == <<mu_pc, mu_events, mu_ret>>
vars == <<sampleVars, treeVars, combVars, resVars, raceVars, muVars>>

NoOp == [name |-> "none", cut |-> "", lumi |-> 0, var |-> "", axis |-> AxisFull,
         weight |-> ""]
Call(name) == [NoOp EXCEPT !.name = name]

NoRet == [kind |-> "none", exc |-> "", total |-> RatZero, unc2 |-> RatZero,
          bins |-> <<>>]
Raise(exc) == [NoRet EXCEPT !.kind = "raise", !.exc = exc]
RetSelf == [NoRet EXCEPT !.kind = "self"]


(***************************************************************************)
(* Sample.__init__, _loadEvents and _setupWeights.                         *)
(***************************************************************************)
GenWeightSum(evs) == IntSum(Map(LAMBDA e : e.genWeight, evs))

\* a slip: the cross-section divided by the number of events
lumWeightOf_ByCount(xs, evs) == Rat(xs, Len(evs))

\* _setupWeights, MC branch: lum_weight = xSection / sum_genweight
lumWeightOf(xs, evs) == Rat(xs, GenWeightSum(evs))

\* _setupWeights: ak.with_field(events, ..., 'eventWeight')
setupWeights(evs, isdata, xs) ==
  IF isdata
  THEN Map(LAMBDA e : [genWeight |-> e.genWeight, Muon |-> e.Muon,
                       eventWeight |-> RatOne], evs)
  ELSE Map(LAMBDA e : [genWeight |-> e.genWeight, Muon |-> e.Muon,
                       eventWeight |-> RatMul(RatInt(e.genWeight),
                                              lumWeightOf(xs, evs))], evs)

\* __init__ up to the file loop of _loadEvents: the fields are set, the file
\* list is fetched and cut to file_limit, and an empty list raises.
SampleInit(isdata, xs, file_limit, das) ==
  /\ pc = "new"
  /\ UNCHANGED <<treeVars, combVars, resVars, raceVars, muVars>>
  /\ isData' = isdata
  /\ xSection' = xs
  /\ selections' = <<>>
  /\ sum_genweight' = 0
  /\ nevents' = 0
  /\ events' = <<>>
  /\ lum_weight' = RatZero
  /\ all_events' = <<>>
  /\ nloaded' = 0
  /\ op' = Call("Sample")
  /\ LET paths == IF file_limit > 0 THEN SubSeq(das, 1, IF file_limit < Len(das) THEN file_limit ELSE Len(das))
                  ELSE das
     IN  /\ file_paths' = paths
         /\ IF paths = <<>>
            THEN pc' = "failed" /\ ret' = Raise("RuntimeError")
            ELSE pc' = "loading" /\ ret' = NoRet

LoadedCount == Len(Concat(all_events))

\* one turn of the file loop: NanoEventsFactory.from_root(fpath).events()
\* returns the file's events
LoadFileOk(evs) ==
  /\ pc = "loading"
  /\ UNCHANGED <<treeVars, combVars, resVars, raceVars, muVars>>
  /\ nloaded < Len(file_paths)
  /\ LoadedCount + Len(evs) <= MaxEvents
  /\ all_events' = Append(all_events, evs)
  /\ nloaded' = nloaded + 1
  /\ UNCHANGED <<pc, isData, xSection, file_paths, events, nevents,
                 sum_genweight, lum_weight, selections, op, ret>>

\* one turn of the file loop: loading raises, the file is skipped
LoadFileFail ==
  /\ pc = "loading"
  /\ UNCHANGED <<treeVars, combVars, resVars, raceVars, muVars>>
  /\ nloaded < Len(file_paths)
  /\ nloaded' = nloaded + 1
  /\ UNCHANGED <<pc, isData, xSection, file_paths, all_events, events, nevents,
                 sum_genweight, lum_weight, selections, op, ret>>

\* after the file loop: concatenate or raise, then _setupWeights
SampleReady ==
  /\ pc = "loading"
  /\ UNCHANGED <<treeVars, combVars, resVars, raceVars, muVars>>
  /\ nloaded = Len(file_paths)
  /\ all_events' = <<>>
  /\ nloaded' = 0
  /\ UNCHANGED <<isData, xSection, file_paths, selections, op>>
  /\ IF all_events = <<>>
     THEN /\ pc' = "failed"
          /\ ret' = Raise("RuntimeError")
          /\ UNCHANGED <<events, nevents, sum_genweight, lum_weight>>
     ELSE LET evs == Concat(all_events)
          IN  /\ nevents' = Len(evs)
              /\ IF isData
                 THEN /\ sum_genweight' = Len(evs)
                      /\ lum_weight' = RatZero
                      /\ events' = setupWeights(evs, TRUE, xSection)
                      /\ pc' = "ready"
                      /\ ret' = NoRet
                 ELSE /\ sum_genweight' = GenWeightSum(evs)
                      /\ IF GenWeightSum(evs) = 0
                         THEN /\ pc' = "failed"
                              /\ ret' = Raise("ZeroDivisionError")
                              /\ events' = <<>>
                              /\ lum_weight' = RatZero
                         ELSE /\ pc' = "ready"
                              /\ ret' = NoRet
                              /\ lum_weight' = lumWeightOf(xSection, evs)
                              /\ events' = setupWeights(evs, FALSE, xSection)

(***************************************************************************)
(* Selections.                                                             *)
(***************************************************************************)
\* eval(cut, {'events': events, ...}) raises: Muon.pt[:, 0] indexes the first
\* muon of every event of the view, and some event of the view has none
EvalFails(cut, evs) ==
  cut = CutPt0 /\ \E i \in 1..Len(evs) : evs[i].Muon = <<>>

\* the entry of the mask eval(cut, ...) returns for event e
Mask(cut, e) ==
  CASE cut = CutNum -> Len(e.Muon) >= 1
    [] cut = CutPt0 -> e.Muon[1] > 1
    [] cut = CutTrue -> TRUE
    [] cut = CutFalse -> FALSE

\* a slip: a selection that cannot be evaluated is skipped
RECURSIVE applySelections_Swallow(_, _)
applySelections_Swallow(evs, sels) ==
  IF sels = <<>> THEN [ok |-> TRUE, events |-> evs]
  ELSE IF EvalFails(Head(sels), evs) THEN applySelections_Swallow(evs, Tail(sels))
  ELSE applySelections_Swallow(SelectSeq(evs, LAMBDA e : Mask(Head(sels), e)),
                               Tail(sels))

\* a slip: only the first selection narrows the view
applySelections_FirstOnly(evs, sels) ==
  IF sels = <<>> THEN [ok |-> TRUE, events |-> evs]
  ELSE IF EvalFails(Head(sels), evs) THEN [ok |-> FALSE, events |-> <<>>]
  ELSE [ok |-> TRUE, events |-> SelectSeq(evs, LAMBDA e : Mask(Head(sels), e))]

RECURSIVE applySelections(_, _)
applySelections(evs, sels) ==
  IF sels = <<>> THEN [ok |-> TRUE, events |-> evs]
  ELSE IF EvalFails(Head(sels), evs) THEN [ok |-> FALSE, events |-> <<>>]
  ELSE applySelections(SelectSeq(evs, LAMBDA e : Mask(Head(sels), e)), Tail(sels))

\* a slip: the new selection is put first
addSelection_Prepend(sels, cut) == <<cut>> \o sels

addSelection(sels, cut) == Append(sels, cut)

clearSelections(sels) == <<>>

AddSelection(cut) ==
  /\ pc = "ready"
  /\ UNCHANGED <<treeVars, combVars, resVars, raceVars, muVars>>
  /\ Len(selections) < MaxSel
  /\ selections' = addSelection(selections, cut)
  /\ op' = [Call("addSelection") EXCEPT !.cut = cut]
  /\ ret' = RetSelf
  /\ UNCHANGED <<pc, isData, xSection, file_paths, all_events, nloaded, events,
                 nevents, sum_genweight, lum_weight>>

ClearSelections ==
  /\ pc = "ready"
  /\ UNCHANGED <<treeVars, combVars, resVars, raceVars, muVars>>
  /\ selections' = clearSelections(selections)
  /\ op' = Call("clearSelections")
  /\ ret' = RetSelf
  /\ UNCHANGED <<pc, isData, xSection, file_paths, all_events, nloaded, events,
                 nevents, sum_genweight, lum_weight>>

(***************************************************************************)
(* getYield and getHist.                                                   *)
(***************************************************************************)
\* a slip: data is weighted like MC
eventWeights_DataLikeMC(evs, isdata, lumi) ==
  Map(LAMBDA e : RatMul(e.eventWeight, RatInt(lumi)), evs)

\* a slip: the lumi is left out
eventWeights_NoLumi(evs, isdata, lumi) ==
  IF isdata THEN Map(LAMBDA e : RatOne, evs)
  ELSE Map(LAMBDA e : e.eventWeight, evs)

\* the default per-event weights: ak.ones_like(events.event) for data,
\* events.eventWeight * lumi for MC
eventWeights(evs, isdata, lumi) ==
  IF isdata THEN Map(LAMBDA e : RatOne, evs)
  ELSE Map(LAMBDA e : RatMul(e.eventWeight, RatInt(lumi)), evs)

\* a slip: the weights of all events, not of the selected ones
getYield_Unfiltered(evs, sels, isdata, lumi) ==
  LET sel == applySelections(evs, sels)
      weights == eventWeights(evs, isdata, lumi)
  IN  IF ~sel.ok THEN Raise("IndexError")
      ELSE [NoRet EXCEPT !.kind = "yield",
                         !.total = RatSum(weights),
                         !.unc2 = RatSum(Map(RatSq, weights))]

getYield(evs, sels, isdata, lumi) ==
  LET sel == applySelections(evs, sels)
      weights == eventWeights(sel.events, isdata, lumi)
  IN  IF ~sel.ok THEN Raise("IndexError")
      ELSE [NoRet EXCEPT !.kind = "yield",
                         !.total = RatSum(weights),
                         !.unc2 = RatSum(Map(RatSq, weights))]

\* An awkward array: depth 1 is one number per event, depth 2 one list of
\* numbers per event.
\* eval(var, {'events': events, ...})
evalVar(var, evs) ==
  IF var = VarPt THEN [depth |-> 2, data |-> Map(LAMBDA e : e.Muon, evs)]
  ELSE [depth |-> 1, data |-> Map(LAMBDA e : Len(e.Muon), evs)]

\* ak.ones_like(a): the same structure, every number replaced by 1
onesLike(a) ==
  IF a.depth = 2
  THEN [depth |-> 2, data |-> Map(LAMBDA l : [i \in 1..Len(l) |-> 1], a.data)]
  ELSE [depth |-> 1, data |-> Map(LAMBDA x : 1, a.data)]

\* the weights array of getHist; its numbers are rationals
histWeights(evs, isdata, lumi, weight, values) ==
  IF weight = NoWeight
  THEN IF isdata
       THEN [depth |-> values.depth,
             data |-> IF values.depth = 2
                      THEN Map(LAMBDA l : Map(RatInt, l), onesLike(values).data)
                      ELSE Map(RatInt, onesLike(values).data)]
       ELSE [depth |-> 1, data |-> eventWeights(evs, FALSE, lumi)]
  ELSE [depth |-> 2,
        data |-> Map(LAMBDA l : Map(RatInt, l), evalVar(weight, evs).data)]

\* ak.flatten(a), axis=1: removes one level of lists; an array of depth 1 has
\* no axis 1 and the call raises
CanFlatten(a) == a.depth >= 2
flatten(a) == Concat(a.data)

\* a slip: a value outside the range is put into the nearest bin of the range
BinIndex_Clamp(axis, x) ==
  IF x < axis.lo THEN 2
  ELSE IF x >= axis.hi THEN axis.bins + 1
  ELSE 2 + ((x - axis.lo) * axis.bins) \div (axis.hi - axis.lo)

\* hist.axis.Regular: 1 is the underflow bin, axis.bins + 2 the overflow bin
BinIndex(axis, x) ==
  IF x < axis.lo THEN 1
  ELSE IF x >= axis.hi THEN axis.bins + 2
  ELSE 2 + ((x - axis.lo) * axis.bins) \div (axis.hi - axis.lo)

RECURSIVE BinWeights(_, _, _, _)
BinWeights(axis, vals, ws, k) ==
  IF vals = <<>> THEN <<>>
  ELSE (IF BinIndex(axis, Head(vals)) = k THEN <<Head(ws)>> ELSE <<>>)
       \o BinWeights(axis, Tail(vals), Tail(ws), k)

\* Hist(axis, storage=Weight()).fill(vals, weight=ws): per bin the sum of
\* the weights and the sum of their squares
fill(axis, vals, ws) ==
  [k \in 1..(axis.bins + 2) |->
     [w |-> RatSum(BinWeights(axis, vals, ws, k)),
      w2 |-> RatSum(Map(RatSq, BinWeights(axis, vals, ws, k)))]]

getHist(evs, sels, isdata, var, axis, lumi, weight) ==
  LET sel == applySelections(evs, sels)
      values == evalVar(var, sel.events)
      weights == histWeights(sel.events, isdata, lumi, weight, values)
  IN  IF ~sel.ok THEN Raise("IndexError")
      ELSE IF ~CanFlatten(values) \/ ~CanFlatten(weights) THEN Raise("AxisError")
      ELSE IF Len(flatten(values)) # Len(flatten(weights)) THEN Raise("ValueError")
      ELSE [NoRet EXCEPT !.kind = "hist",
                         !.bins = fill(axis, flatten(values), flatten(weights))]

GetYield(lumi) ==
  /\ pc = "ready"
  /\ UNCHANGED <<treeVars, combVars, resVars, raceVars, muVars>>
  /\ op' = [Call("getYield") EXCEPT !.lumi = lumi]
  /\ ret' = getYield(events, selections, isData, lumi)
  /\ UNCHANGED <<pc, isData, xSection, file_paths, all_events, nloaded, events,
                 nevents, sum_genweight, lum_weight, selections>>

GetHist(var, axis, lumi, weight) ==
  /\ pc = "ready"
  /\ UNCHANGED <<treeVars, combVars, resVars, raceVars, muVars>>
  /\ op' = [Call("getHist") EXCEPT !.lumi = lumi, !.var = var, !.axis = axis,
                                    !.weight = weight]
  /\ ret' = getHist(events, selections, isData, var, axis, lumi, weight)
  /\ UNCHANGED <<pc, isData, xSection, file_paths, all_events, nloaded, events,
                 nevents, sum_genweight, lum_weight, selections>>

(***************************************************************************)
(* include/Sample.py: the ROOT Sample, Block and Tree.                     *)
(*                                                                         *)
(* The disk is a fixture: every locator of the definitions files below is  *)
(* a local directory (no DAS dataset, no root:// or /eos/ path, no glob),  *)
(* so _loadFiles takes its os.walk branch.  An event of a ROOT file is a   *)
(* record [genWeight, x]; x is the branch the histograms are made of.      *)
(***************************************************************************)
Ev(g, x) == [genWeight |-> g, x |-> x]

Disk(location) ==
  CASE location = "/data/A" -> << <<Ev(2, 1)>>, <<Ev(-1, 3), Ev(2, 3)>> >>
    [] location = "/data/B" -> << <<Ev(2, 0), Ev(2, 5)>> >>
    [] OTHER -> <<>>

\* A line of the definitions file, after strip() and split().
LineDY_A == <<"DY", "r.kBlue", "dyA", "DYlow", "/data/A", "6.0", "0">>
LineDY_B == <<"DY", "r.kBlue+1", "dyB", "DYhigh", "/data/B", "6.0", "0">>
LineTT == <<"TT", "r.kRed", "tt", "TT", "/data/B", "6.0", "0">>
LineData == <<"Data", "r.kBlack", "data", "Data", "/data/A", "1.0", "1">>
LineNoFiles == <<"TT", "r.kRed", "ttx", "TT", "/data/none", "6.0", "0">>
LineShort == <<"TT", "r.kRed", "tt", "TT", "/data/B">>
LineComment == <<"#", "DY", "r.kBlue", "dyA", "DYlow", "/data/A", "6.0", "0">>
Lines == {LineDY_A, LineDY_B, LineTT, LineData, LineNoFiles, LineShort, LineComment}
DefinitionFiles == SeqsUpTo(Lines, MaxLines)

\* float(), int() and eval() on the tokens the fixture uses.
ParseFloat(tok) == CASE tok = "6.0" -> 6 [] tok = "1.0" -> 1
ParseInt(tok) == CASE tok = "0" -> 0 [] tok = "1" -> 1
evalColor(theColor) ==
  CASE theColor = "r.kBlue+1" -> [base |-> "r.kBlue", plus |-> 1]
    [] OTHER -> [base |-> theColor, plus |-> 0]

TreeLumis == {2}
TreeCutDefault == ""
CutAll == "(1)"
CutBlockDefault == "true"
CutX == "x > 1"
CutLow == "x < 5"
TreeCuts == {TreeCutDefault, CutX}
BlockCuts == {CutBlockDefault, CutX}
Filter(evs, cut) ==
  SelectSeq(evs, LAMBDA e : CASE cut = CutX -> e.x > 1
                              [] cut = CutLow -> e.x < 5
                              [] OTHER -> TRUE)

NoTreeOp == [name |-> "none", block |-> 0, lumi |-> 0, axis |-> AxisFull, cut |-> ""]
TreeCall(name) == [NoTreeOp EXCEPT !.name = name]
NoTreeRet == [kind |-> "none", exc |-> "", bins |-> <<>>, color |-> evalColor("0"),
              title |-> "", total |-> RatZero, unc2 |-> RatZero, layers |-> <<>>]
TreeRaise(exc) == [NoTreeRet EXCEPT !.kind = "raise", !.exc = exc]

\* Sample._loadFiles, local directory: the files in walk order, cut short at
\* file_limit when that is positive.
loadFiles(location, file_limit) ==
  LET files == Disk(location)
  IN  IF file_limit > 0 /\ Len(files) > file_limit
        THEN SubSeq(files, 1, file_limit) ELSE files

\* Sample.__init__: [ok, exc, sample]
NewSample(name, label, color, location, xsection, isdata, file_limit) ==
  LET ftpaths == loadFiles(location, file_limit)
      chain == Concat(ftpaths)
      count == IF isdata = 0 THEN GenWeightSum(chain) ELSE Len(chain)
      s == [name |-> name, label |-> label, color |-> evalColor(color),
            location |-> location, xSection |-> xsection, isData |-> isdata,
            nfiles |-> Len(ftpaths), rdf |-> chain, count |-> count,
            lumWeight |-> RatZero]
  IN  IF ftpaths = <<>> THEN [ok |-> FALSE, exc |-> "RuntimeError", sample |-> s]
      ELSE IF isdata = 0 /\ count = 0
        THEN [ok |-> FALSE, exc |-> "ZeroDivisionError", sample |-> s]
      ELSE [ok |-> TRUE, exc |-> "",
            sample |-> IF isdata = 0 THEN [s EXCEPT !.lumWeight = Rat(xsection, count)]
                       ELSE s]

\* ofBin = False; h_of = h.Clone() and the loop over range(1, GetNbinsX()+2)
\* that sets content and error of the bins of the range and of the overflow
\* bin from h
ofBin == FALSE
h_of(h) ==
  [k \in DOMAIN h |-> IF k >= 2 THEN [w |-> h[k].w, w2 |-> h[k].w2] ELSE h[k]]

\* Sample.getTH1F: the bins of the histogram of x, under- and overflow
\* included (ofBin is False, so the plain histogram is what is returned).
Sample_getTH1F(s, lumi, axis, cut) ==
  LET red == Filter(s.rdf, cut)
      weight(e) == IF s.isData = 0
                     THEN RatMul(RatInt(lumi), RatMul(s.lumWeight, RatInt(e.genWeight)))
                     ELSE RatOne
      h == fill(axis, Map(LAMBDA e : e.x, red), Map(weight, red))
  IN  IF ofBin THEN h_of(h) ELSE h

\* TH1.Add with Sumw2 on: contents and squared errors add bin by bin.
HAdd_ContentsOnly(h, g) ==
  [k \in DOMAIN h |-> [w |-> RatAdd(h[k].w, g[k].w), w2 |-> h[k].w2]]

HAdd(h, g) ==
  [k \in DOMAIN h |-> [w |-> RatAdd(h[k].w, g[k].w), w2 |-> RatAdd(h[k].w2, g[k].w2)]]

\* The loop of Block.getTH1F and of Tree.getTH1F: Clone the first
\* histogram, Add every later one to the clone.
RECURSIVE AddLoop(_)
AddLoop(hs) ==
  IF Len(hs) = 1 THEN hs[1]
  ELSE HAdd(AddLoop(SubSeq(hs, 1, Len(hs) - 1)), hs[Len(hs)])

Block_getTH1F(b, lumi, axis, cut) ==
  IF b.samples = <<>> THEN TreeRaise("UnboundLocalError")
  ELSE [NoTreeRet EXCEPT
          !.kind = "hist",
          !.bins = AddLoop(Map(LAMBDA s : Sample_getTH1F(s, lumi, axis, cut), b.samples)),
          !.color = b.color,
          !.title = b.label]

Tree_getTH1F(blks, lumi, axis, cut) ==
  LET c == IF cut = "" THEN CutAll ELSE cut
      hs == Map(LAMBDA b : Block_getTH1F(b, lumi, axis, c), blks)
  IN  IF blks = <<>> THEN TreeRaise("UnboundLocalError")
      ELSE IF \E i \in 1..Len(hs) : hs[i].kind = "raise"
        THEN TreeRaise("UnboundLocalError")
      ELSE [hs[1] EXCEPT !.bins = AddLoop(Map(LAMBDA h : h.bins, hs))]

\* Tree.getYields: a one-bin histogram over (xmin, xmax), integrated from
\* FindBin(xmin) to FindBin(xmax).
Tree_getYields(blks, lumi, xmin, xmax, cut) ==
  LET axis == [bins |-> 1, lo |-> xmin, hi |-> xmax]
      h == Tree_getTH1F(blks, lumi, axis, cut)
      nbinmin == BinIndex(axis, xmin)
      nbinmax == BinIndex(axis, xmax)
  IN  IF h.kind = "raise" THEN h
      ELSE [NoTreeRet EXCEPT
              !.kind = "yield",
              !.total = RatSum([k \in 1..(nbinmax - nbinmin + 1) |-> h.bins[nbinmin + k - 1].w]),
              !.unc2 = RatSum([k \in 1..(nbinmax - nbinmin + 1) |-> h.bins[nbinmin + k - 1].w2])]

\* Block.__init__ and the grouping step of Tree.parseFileName.
Block(name, label, color, isdata) ==
  [name |-> name, label |-> label, color |-> color, isData |-> isdata, samples |-> <<>>]

addSample(b, s) == [b EXCEPT !.samples = Append(@, s)]

\* a slip: a new Block is added to the Tree without its Sample
groupSample_BlockOnly(blks, block, label, color, isdata, sample) ==
  LET coincidentBlock == {i \in 1..Len(blks) : blks[i].name = block}
      first == CHOOSE i \in coincidentBlock : \A j \in coincidentBlock : i <= j
  IN  IF coincidentBlock = {}
        THEN Append(blks, Block(block, label, color, isdata))
        ELSE [blks EXCEPT ![first] = addSample(@, sample)]

groupSample_AlwaysNew(blks, block, label, color, isdata, sample) ==
  Append(blks, addSample(Block(block, label, color, isdata), sample))

groupSample(blks, block, label, color, isdata, sample) ==
  LET coincidentBlock == {i \in 1..Len(blks) : blks[i].name = block}
      first == CHOOSE i \in coincidentBlock : \A j \in coincidentBlock : i <= j
  IN  IF coincidentBlock = {}
        THEN Append(blks, addSample(Block(block, label, color, isdata), sample))
        ELSE [blks EXCEPT ![first] = addSample(@, sample)]

IsSkipped(line) == Len(line) = 0 \/ line[1] = "#" \/ Len(line) < 7

\* The body of the loop of Tree.parseFileName for a line of 7 fields or
\* more: [ok, exc, blocks]
parseValidLine(blks, line, file_limit) ==
  LET isdata == ParseInt(line[7])
      made == NewSample(line[3], line[4], line[2], line[5],
                        ParseFloat(line[6]), isdata, file_limit)
  IN  IF made.ok
        THEN [ok |-> TRUE, exc |-> "",
              blocks |-> groupSample(blks, line[1], line[4], evalColor(line[2]),
                                     isdata, made.sample)]
        ELSE [ok |-> FALSE, exc |-> made.exc, blocks |-> blks]

\* a slip: a line of fewer than 7 fields opens a Block without a Sample
parseLine_ShortOpensBlock(blks, line, file_limit) ==
  IF Len(line) = 0 \/ line[1] = "#" THEN [ok |-> TRUE, exc |-> "", blocks |-> blks]
  ELSE IF Len(line) < 7
    THEN [ok |-> TRUE, exc |-> "", blocks |-> Append(blks, Block(line[1], "", evalColor("0"), 0))]
  ELSE parseValidLine(blks, line, file_limit)

\* The body of the loop of Tree.parseFileName: [ok, exc, blocks]
parseLine(blks, line, file_limit) ==
  IF IsSkipped(line) THEN [ok |-> TRUE, exc |-> "", blocks |-> blks]
  ELSE parseValidLine(blks, line, file_limit)

\* Tree.parseFileName on a whole file, starting from the Blocks blks.
RECURSIVE parseFileName(_, _, _)
parseFileName(blks, lines, file_limit) ==
  IF lines = <<>> THEN [ok |-> TRUE, exc |-> "", blocks |-> blks]
  ELSE LET one == parseLine(blks, Head(lines), file_limit)
       IN  IF one.ok THEN parseFileName(one.blocks, Tail(lines), file_limit) ELSE one

\* One turn of the loop of Tree.parseFileName.
ParseLine ==
  /\ tree_pc = "parse"
  /\ tree_i < Len(tree_lines)
  /\ UNCHANGED <<sampleVars, combVars, resVars, raceVars, muVars>>
  /\ LET one == parseLine(blocks, tree_lines[tree_i + 1], tree_limit)
     IN  IF one.ok
           THEN /\ blocks' = one.blocks
                /\ tree_i' = tree_i + 1
                /\ UNCHANGED <<tree_pc, tree_ret>>
           ELSE /\ tree_pc' = "failed"
                /\ tree_ret' = TreeRaise(one.exc)
                /\ UNCHANGED <<tree_i, blocks>>
  /\ UNCHANGED <<tree_lines, tree_limit, tree_op, tree_sels>>

\* The loop is over: Tree.__init__ returns.
ParseEnd ==
  /\ tree_pc = "parse"
  /\ tree_i = Len(tree_lines)
  /\ UNCHANGED <<sampleVars, combVars, resVars, raceVars, muVars>>
  /\ tree_pc' = "ready"
  /\ UNCHANGED <<tree_lines, tree_i, tree_limit, blocks, tree_op, tree_ret, tree_sels>>

BlockGetTH1F(b, lumi, axis, cut) ==
  /\ tree_pc = "ready"
  /\ b \in 1..Len(blocks)
  /\ UNCHANGED <<sampleVars, combVars, resVars, raceVars, muVars>>
  /\ tree_op' = [TreeCall("Block.getTH1F") EXCEPT !.block = b, !.lumi = lumi,
                                                  !.axis = axis, !.cut = cut]
  /\ tree_ret' = Block_getTH1F(blocks[b], lumi, axis, cut)
  /\ UNCHANGED <<tree_pc, tree_lines, tree_i, tree_limit, blocks, tree_sels>>

TreeGetTH1F(lumi, axis, cut) ==
  /\ tree_pc = "ready"
  /\ UNCHANGED <<sampleVars, combVars, resVars, raceVars, muVars>>
  /\ tree_op' = [TreeCall("Tree.getTH1F") EXCEPT !.lumi = lumi, !.axis = axis, !.cut = cut]
  /\ tree_ret' = Tree_getTH1F(blocks, lumi, axis, cut)
  /\ UNCHANGED <<tree_pc, tree_lines, tree_i, tree_limit, blocks, tree_sels>>

TreeGetYields(lumi, axis, cut) ==
  /\ tree_pc = "ready"
  /\ UNCHANGED <<sampleVars, combVars, resVars, raceVars, muVars>>
  /\ tree_op' = [TreeCall("Tree.getYields") EXCEPT !.lumi = lumi, !.axis = axis, !.cut = cut]
  /\ tree_ret' = Tree_getYields(blocks, lumi, axis.lo, axis.hi, cut)
  /\ UNCHANGED <<tree_pc, tree_lines, tree_i, tree_limit, blocks, tree_sels>>

\* a slip: only the Samples of the first Block are filtered
Tree_setSelection_FirstBlock(blks, selection) ==
  [b \in 1..Len(blks) |->
     IF b > 1 THEN blks[b]
     ELSE [blks[b] EXCEPT !.samples =
             [s \in 1..Len(blks[b].samples) |->
                [blks[b].samples[s] EXCEPT !.rdf = Filter(@, selection)]]]]

\* Tree.setSelection: s.rdf = s.rdf.Filter(selection) for every Sample of
\* every Block.
Tree_setSelection(blks, selection) ==
  [b \in 1..Len(blks) |->
     [blks[b] EXCEPT !.samples =
        [s \in 1..Len(blks[b].samples) |->
           [blks[b].samples[s] EXCEPT !.rdf = Filter(@, selection)]]]]

TreeSetSelection(selection) ==
  /\ tree_pc = "ready"
  /\ Len(tree_sels) < MaxTreeSel
  /\ UNCHANGED <<sampleVars, combVars, resVars, raceVars, muVars>>
  /\ blocks' = Tree_setSelection(blocks, selection)
  /\ tree_sels' = Append(tree_sels, selection)
  /\ tree_op' = [TreeCall("Tree.setSelection") EXCEPT !.cut = selection]
  /\ tree_ret' = [NoTreeRet EXCEPT !.kind = "None"]
  /\ UNCHANGED <<tree_pc, tree_lines, tree_i, tree_limit>>

\* a slip: the layers are stacked last Block first
Tree_getStack_Reversed(blks, lumi, axis, cut) ==
  LET c == IF cut = "" THEN CutAll ELSE cut
      hs == Map(LAMBDA b : Block_getTH1F(b, lumi, axis, c), blks)
      n == Len(blks)
  IN  IF blks = <<>> THEN TreeRaise("UnboundLocalError")
      ELSE [NoTreeRet EXCEPT
              !.kind = "stack",
              !.layers = [i \in 1..n |->
                            [bins |-> hs[n + 1 - i].bins, title |-> blks[n + 1 - i].label,
                             fill |-> blks[n + 1 - i].color]]]

\* Tree.getStack: one layer per Block, each the Block's histogram with the
\* Block's label as title and the Block's color as fill color.  The canvas
\* made after the loop is named after the last Block, so a Tree without a
\* Block raises.
Tree_getStack(blks, lumi, axis, cut) ==
  LET c == IF cut = "" THEN CutAll ELSE cut
      hs == Map(LAMBDA b : Block_getTH1F(b, lumi, axis, c), blks)
  IN  IF \E i \in 1..Len(hs) : hs[i].kind = "raise"
        THEN TreeRaise("UnboundLocalError")
      ELSE IF blks = <<>> THEN TreeRaise("UnboundLocalError")
      ELSE [NoTreeRet EXCEPT
              !.kind = "stack",
              !.layers = [i \in 1..Len(hs) |->
                            [bins |-> hs[i].bins, title |-> blks[i].label,
                             fill |-> blks[i].color]]]

TreeGetStack(lumi, axis, cut) ==
  /\ tree_pc = "ready"
  /\ UNCHANGED <<sampleVars, combVars, resVars, raceVars, muVars>>
  /\ tree_op' = [TreeCall("Tree.getStack") EXCEPT !.lumi = lumi, !.axis = axis, !.cut = cut]
  /\ tree_ret' = Tree_getStack(blocks, lumi, axis, cut)
  /\ UNCHANGED <<tree_pc, tree_lines, tree_i, tree_limit, blocks, tree_sels>>

(***************************************************************************)
(* Merging histogram objects.  A histogram is an object with an identity:  *)
(* heap[c] holds the bins of object c.  Objects 1..3 are the histograms    *)
(* A, B, C handed to the merge; orig remembers what they were created      *)
(* with and leaves[c][i] counts how often input i went into object c.      *)
(***************************************************************************)
Bin(w, w2) == [w |-> RatInt(w), w2 |-> RatInt(w2)]
HistInputs == { <<Bin(10, 9), Bin(0, 0)>>,
                <<Bin(20, 16), Bin(1, 1)>>,
                <<Bin(-3, 5), Bin(2, 4)>> }
InputIds == {1, 2, 3}
Leaf(i) == [j \in InputIds |-> IF j = i THEN 1 ELSE 0]
NoLeaves == [j \in InputIds |-> 0]
LeavesAdd(a, b) == [j \in InputIds |-> a[j] + b[j]]

RECURSIVE LeavesOf(_, _)
LeavesOf(lv, ids) ==
  IF ids = <<>> THEN NoLeaves
  ELSE LeavesAdd(LeavesOf(lv, SubSeq(ids, 1, Len(ids) - 1)), lv[ids[Len(ids)]])

\* The lists of distinct objects a merge can be called with.
IdLists(n) ==
  {ids \in SeqsUpTo(1..n, 3) : \A i, j \in 1..Len(ids) : i # j => ids[i] # ids[j]}

NoCombOp == [name |-> "none"]
NoCombRet == [kind |-> "none", exc |-> "", id |-> 0]

\* hist's a + b: a new histogram, values and variances added bin by bin.
HistPlus(a, b) ==
  [k \in DOMAIN a |-> [w |-> RatAdd(a[k].w, b[k].w), w2 |-> RatAdd(a[k].w2, b[k].w2)]]

RECURSIVE SumFrom(_, _, _)
SumFrom(hp, result, ids) ==
  IF ids = <<>> THEN result
  ELSE SumFrom(hp, HistPlus(result, hp[ids[1]]), Tail(ids))

\* The same loop on the first input itself instead of on a copy of it.
combineHistograms_InPlace(hp, histograms) ==
  IF histograms = <<>> THEN [ok |-> FALSE, exc |-> "ValueError", heap |-> hp, id |-> 0]
  ELSE LET sum == SumFrom(hp, hp[histograms[1]], Tail(histograms))
       IN  [ok |-> TRUE, exc |-> "",
            heap |-> Append([hp EXCEPT ![histograms[1]] = sum], sum),
            id |-> Len(hp) + 1]

\* combineHistograms: copy the first histogram, then result = result + h
\* for every later one; the result is a new object.
combineHistograms(hp, histograms) ==
  IF histograms = <<>> THEN [ok |-> FALSE, exc |-> "ValueError", heap |-> hp, id |-> 0]
  ELSE [ok |-> TRUE, exc |-> "",
        heap |-> Append(hp, SumFrom(hp, hp[histograms[1]], Tail(histograms))),
        id |-> Len(hp) + 1]

\* The Clone/Add loop of Block.getTH1F on histogram objects: h is a Clone
\* of the first one, every later one is added to h in place.
cloneAndAdd(hp, histograms) ==
  IF histograms = <<>> THEN [ok |-> FALSE, exc |-> "UnboundLocalError", heap |-> hp, id |-> 0]
  ELSE [ok |-> TRUE, exc |-> "",
        heap |-> Append(hp, AddLoop([i \in 1..Len(histograms) |-> hp[histograms[i]]])),
        id |-> Len(hp) + 1]

Merged(name, done, ids) ==
  /\ comb_op' = [name |-> name]
  /\ heap' = done.heap
  /\ IF done.ok
       THEN /\ leaves' = Append(leaves, LeavesOf(leaves, ids))
            /\ comb_ret' = [NoCombRet EXCEPT !.kind = "hist", !.id = done.id]
       ELSE /\ leaves' = leaves
            /\ comb_ret' = [NoCombRet EXCEPT !.kind = "raise", !.exc = done.exc]
  /\ UNCHANGED orig

CombineHistograms(ids) ==
  /\ Len(heap) < MaxObjects
  /\ UNCHANGED <<sampleVars, treeVars, resVars, raceVars, muVars>>
  /\ Merged("combineHistograms", combineHistograms(heap, ids), ids)

CloneAndAdd(ids) ==
  /\ Len(heap) < MaxObjects
  /\ UNCHANGED <<sampleVars, treeVars, resVars, raceVars, muVars>>
  /\ Merged("Block.getTH1F", cloneAndAdd(heap, ids), ids)

(***************************************************************************)
(* Resolving the files of a Sample: queryDAS, getCachedDASFiles (both      *)
(* modules hold the same code), Sample.__init__ and Sample._loadFiles of   *)
(* include/Sample.py and the head of Sample._loadEvents of                 *)
(* include/Sample_coffea.py.                                               *)
(*                                                                         *)
(* A path or locator is the sequence of its pieces between slashes, so     *)
(* "/DY/Run3/NANOAOD" is <<"", "DY", "Run3", "NANOAOD">>.  A file name is  *)
(* [prefix, path, pad]: pad is the white space that trails it.             *)
(***************************************************************************)
LocDas == <<"", "DY", "Run3", "NANOAOD">>
Locators ==
  {LocDas,
   <<"root:", "", "eoscms.cern.ch", "", "eos", "cms", "store", "*.root">>,
   <<"root:", "", "eoscms.cern.ch", "", "eos", "cms", "store", "f1.root">>,
   <<"", "eos", "cms", "store", "*.root">>,
   <<"", "eos", "cms", "store", "f1.root">>,
   <<"", "eos", "user", "f1.root">>,
   <<"data", "*.root">>,
   <<"", "data", "A">>}

XROOTD_REDIRECTOR == "root://cms-xrd-global.cern.ch/"

File(prefix, path, pad) == [prefix |-> prefix, path |-> path, pad |-> pad]

\* '*' in location
HasStar(loc) == \E i \in 1..Len(loc) : loc[i] \in {"*", "*.root"}

\* '.root' in f
ContainsDotRoot(path) ==
  \E i \in 1..Len(path) : path[i] \in {"f1.root", "f2.root", "*.root", "old.root.d"}

\* location.startswith('/') and location.count('/') >= 3
\*   and '/store/' not in location
isDASDataset(location) ==
  /\ Len(location) >= 2 /\ location[1] = ""
  /\ Len(location) - 1 >= 3
  /\ ~(\E i \in 2..(Len(location) - 1) : location[i] = "store")

\* How a run of the catalog client ends: it prints lines and exits with 0,
\* it exits with an error, or the executable is not there.  A line is a
\* name with or without trailing white space, or nothing at all.
QueryOutcomes ==
  LET f1 == [lfn |-> "f1.root", pad |-> ""]
      f1pad == [lfn |-> "f1.root", pad |-> " "]
      f2 == [lfn |-> "f2.root", pad |-> ""]
      empty == [lfn |-> "", pad |-> ""]
  IN  [kind : {"ok"},
       stdout : {<<>>, <<f1>>, <<f1, f2>>, <<f2, f1>>, <<f1pad, f2>>, <<f1, empty, f2>>,
                 <<f1, f1>>, <<empty>>}]
        \cup {[kind |-> "error", stdout |-> <<>>], [kind |-> "missing", stdout |-> <<>>]}

\* result.stdout.strip(): the white space at both ends of the whole output
\* goes, the white space at the end of an inner line stays
stdout_strip(lines) ==
  LET named == {i \in 1..Len(lines) : lines[i].lfn # ""}
  IN  IF named = {} THEN <<>>
      ELSE LET lo == CHOOSE i \in named : \A j \in named : i <= j
               hi == CHOOSE i \in named : \A j \in named : j <= i
               cut == SubSeq(lines, lo, hi)
           IN  [cut EXCEPT ![Len(cut)].pad = ""]

\* queryDAS: [files, printed]
queryDAS(outcome) ==
  IF outcome.kind = "ok"
    THEN LET files == SelectSeq(stdout_strip(outcome.stdout),
                                LAMBDA f : f.lfn # "" \/ f.pad # "")
         IN  [files |-> [i \in 1..Len(files) |->
                           File(XROOTD_REDIRECTOR, <<files[i].lfn>>, files[i].pad)],
              printed |-> "DAS query returned"]
  ELSE IF outcome.kind = "error"
    THEN [files |-> <<>>, printed |-> "DAS query failed"]
  ELSE [files |-> <<>>, printed |-> "ERROR: dasgoclient not found"]

\* The cache file of a dataset: it is there or not, and holds lines.
CacheFile(exists, lines) == [exists |-> exists, lines |-> lines]

\* [line.strip() for line in f if line.strip()]
readCache(cfile) == [i \in 1..Len(cfile.lines) |-> [cfile.lines[i] EXCEPT !.pad = ""]]

\* getCachedDASFiles: [files, queried, printed, cache]
getCachedDASFiles(cfile, outcome) ==
  IF cfile.exists
    THEN [files |-> readCache(cfile), queried |-> FALSE,
          printed |-> "Using cached DAS query", cache |-> cfile]
    ELSE LET q == queryDAS(outcome)
         IN  [files |-> q.files, queried |-> TRUE, printed |-> q.printed,
              cache |-> IF q.files # <<>> THEN CacheFile(TRUE, q.files) ELSE cfile]

\* What glob.glob and os.walk find: paths, no path twice.
Listings ==
  LET old == <<"data", "old.root.d", "notes.txt">>
      f1 == <<"data", "f1.root">>
      f2 == <<"data", "f2.root">>
      txt == <<"data", "notes.txt">>
  IN  {<<>>, <<txt>>, <<f1>>, <<f1, f2>>, <<f2, txt, f1>>, <<old, f2, f1>>}

\* the walk of Sample._loadFiles: the files whose own name holds ".root",
\* up to the file that makes the list file_limit long
RECURSIVE walkFiles(_, _, _)
walkFiles(found, listing, file_limit) ==
  IF listing = <<>> THEN found
  ELSE IF ~ContainsDotRoot(<<Head(listing)[Len(Head(listing))]>>)
    THEN walkFiles(found, Tail(listing), file_limit)
  ELSE LET next == Append(found, File("", Head(listing), ""))
       IN  IF file_limit > 0 /\ Len(next) >= file_limit THEN next
           ELSE walkFiles(next, Tail(listing), file_limit)

\* Sample._loadFiles: the list ftpaths.  das is what getCachedDASFiles
\* answers, listing what glob.glob or os.walk finds.
Sample_loadFiles(location, file_limit, das, listing) ==
  LET eos == Len(location) >= 3 /\ location[1] = "" /\ location[2] = "eos"
      root == Len(location) >= 3 /\ location[1] = "root:" /\ location[2] = ""
      hits == SelectSeq(listing, ContainsDotRoot)
  IN  IF isDASDataset(location)
        THEN IF file_limit > 0 /\ Len(das) > file_limit
               THEN SubSeq(das, 1, file_limit) ELSE das
      ELSE IF root \/ eos
        THEN IF HasStar(location)
               THEN [i \in 1..Len(hits) |-> File("root://eoscms.cern.ch/", hits[i], "")]
               ELSE <<File(IF eos THEN "root://eoscms.cern.ch/" ELSE "", location, "")>>
      ELSE IF HasStar(location)
        THEN [i \in 1..Len(hits) |-> File("", hits[i], "")]
      ELSE walkFiles(<<>>, listing, file_limit)

NoResOp == [name |-> "none", location |-> <<>>, file_limit |-> 0,
            outcome |-> [kind |-> "none", stdout |-> <<>>], cached |-> FALSE]
NoResRet == [kind |-> "none", exc |-> "", files |-> <<>>, queried |-> FALSE, printed |-> ""]

\* a slip: an empty list is handed on
filesOrRaise_Never(files, got) ==
  [NoResRet EXCEPT !.kind = "files", !.files = files,
                   !.queried = got.queried, !.printed = got.printed]

\* if not self.ftpaths: raise RuntimeError (Sample.__init__), and the same
\* test of file_paths in Sample._loadEvents
filesOrRaise(files, got) ==
  IF files = <<>>
    THEN [NoResRet EXCEPT !.kind = "raise", !.exc = "RuntimeError",
                          !.queried = got.queried, !.printed = got.printed]
    ELSE [NoResRet EXCEPT !.kind = "files", !.files = files,
                          !.queried = got.queried, !.printed = got.printed]

\* The datasets the catalog is asked for: each has a cache file of its own
\* (the name of the file is the md5 of the dataset).
Datasets == {loc \in Locators : isDASDataset(loc)}

\* A call of getCachedDASFiles(dataset) on its own.
GetCachedDASFiles(dataset, outcome) ==
  /\ UNCHANGED <<sampleVars, treeVars, combVars, raceVars, muVars>>
  /\ LET got == getCachedDASFiles(das_cache[dataset], outcome)
     IN  /\ das_cache' = [das_cache EXCEPT ![dataset] = got.cache]
         /\ res_op' = [NoResOp EXCEPT !.name = "getCachedDASFiles", !.location = dataset,
                                      !.outcome = outcome,
                                      !.cached = das_cache[dataset].exists]
         /\ res_ret' = [NoResRet EXCEPT !.kind = "files", !.files = got.files,
                                        !.queried = got.queried, !.printed = got.printed]

\* Sample.__init__ of include/Sample.py up to the test of ftpaths.
LoadFiles(location, file_limit, outcome, listing) ==
  /\ UNCHANGED <<sampleVars, treeVars, combVars, raceVars, muVars>>
  /\ LET das == isDASDataset(location)
         got == IF das THEN getCachedDASFiles(das_cache[location], outcome)
                ELSE [files |-> <<>>, queried |-> FALSE, printed |-> "",
                      cache |-> CacheFile(FALSE, <<>>)]
         ftpaths == Sample_loadFiles(location, file_limit, got.files, listing)
     IN  /\ das_cache' = IF das THEN [das_cache EXCEPT ![location] = got.cache]
                         ELSE das_cache
         /\ res_op' = [NoResOp EXCEPT !.name = "Sample._loadFiles", !.location = location,
                                      !.file_limit = file_limit,
                                      !.outcome = IF das THEN outcome ELSE NoResOp.outcome,
                                      !.cached = das /\ das_cache[location].exists]
         /\ res_ret' = filesOrRaise(ftpaths, got)

\* Sample._loadEvents of include/Sample_coffea.py up to the test of
\* file_paths: the dataset is always asked from the catalog.
LoadEventsFiles(file_limit, outcome) ==
  /\ UNCHANGED <<sampleVars, treeVars, combVars, raceVars, muVars>>
  /\ LET got == getCachedDASFiles(das_cache[LocDas], outcome)
         paths == IF file_limit > 0 /\ Len(got.files) > file_limit
                    THEN SubSeq(got.files, 1, file_limit) ELSE got.files
     IN  /\ das_cache' = [das_cache EXCEPT ![LocDas] = got.cache]
         /\ res_op' = [NoResOp EXCEPT !.name = "Sample._loadEvents", !.location = LocDas,
                                      !.file_limit = file_limit, !.outcome = outcome,
                                      !.cached = das_cache[LocDas].exists]
         /\ res_ret' = filesOrRaise(paths, got)

(***************************************************************************)
(* Two processes in getCachedDASFiles for the same dataset at once.  The   *)
(* cache file is shared; each process has its own position and its own     *)
(* variable files.  open(cache_file, 'w') creates or empties the file;     *)
(* what write() hands over reaches the file in one piece or in two, the    *)
(* last when the file is closed.                                           *)
(***************************************************************************)
Procs == {1, 2}

\* os.path.exists(cache_file)
RaceExists(p) ==
  /\ race_pc[p] = "start"
  /\ UNCHANGED <<sampleVars, treeVars, combVars, resVars, muVars>>
  /\ race_pc' = [race_pc EXCEPT ![p] = IF race_file.exists THEN "read" ELSE "query"]
  /\ UNCHANGED <<race_file, race_files, race_list>>

\* with open(cache_file, 'r'): the lines the file holds now are returned
RaceRead(p) ==
  /\ race_pc[p] = "read"
  /\ UNCHANGED <<sampleVars, treeVars, combVars, resVars, muVars>>
  /\ race_files' = [race_files EXCEPT ![p] = readCache(race_file)]
  /\ race_pc' = [race_pc EXCEPT ![p] = "done"]
  /\ UNCHANGED <<race_file, race_list>>

\* files = queryDAS(dataset): the catalog answers with its list
RaceQuery(p) ==
  /\ race_pc[p] = "query"
  /\ UNCHANGED <<sampleVars, treeVars, combVars, resVars, muVars>>
  /\ race_files' = [race_files EXCEPT ![p] = race_list]
  /\ race_pc' = [race_pc EXCEPT ![p] = IF race_list # <<>> THEN "open" ELSE "done"]
  /\ UNCHANGED <<race_file, race_list>>

\* open(cache_file, 'w')
RaceOpen(p) ==
  /\ race_pc[p] = "open"
  /\ UNCHANGED <<sampleVars, treeVars, combVars, resVars, muVars>>
  /\ race_file' = CacheFile(TRUE, <<>>)
  /\ race_pc' = [race_pc EXCEPT ![p] = "write"]
  /\ UNCHANGED <<race_files, race_list>>

\* a first piece of the text reaches the file before the file is closed
RaceFlush(p) ==
  /\ race_pc[p] = "write"
  /\ Len(race_files[p]) >= 2
  /\ UNCHANGED <<sampleVars, treeVars, combVars, resVars, muVars>>
  /\ race_file' = CacheFile(TRUE, SubSeq(race_files[p], 1, 1))
  /\ race_pc' = [race_pc EXCEPT ![p] = "close"]
  /\ UNCHANGED <<race_files, race_list>>

\* the file is closed: all of the text is in the file; files is returned
RaceClose(p) ==
  /\ race_pc[p] \in {"write", "close"}
  /\ UNCHANGED <<sampleVars, treeVars, combVars, resVars, muVars>>
  /\ race_file' = CacheFile(TRUE, race_files[p])
  /\ race_pc' = [race_pc EXCEPT ![p] = "done"]
  /\ UNCHANGED <<race_files, race_list>>

(***************************************************************************)
(* include/auxiliar.py: computeDimuonMass.  The invariant mass of two      *)
(* muons is kept as the pair it is computed from; Invalid is -999.         *)
(***************************************************************************)
DimuonEvents == [Muon : {<<>>, <<3>>, <<3, 1>>, <<5, 3, 1>>}, eventWeight : {1, 2}]
Mass(mu1, mu2) == [kind |-> "mass", mu1 |-> mu1, mu2 |-> mu2]
Invalid == [kind |-> "invalid", mu1 |-> 0, mu2 |-> 0]

NoMuRet == [kind |-> "none", exc |-> "", events |-> <<>>]

\* ak.where(condition, x, y) with y a number: condition and x are brought
\* to one length first.  Equal lengths go together; an x of length 1 is
\* repeated when the library broadcasts it (broadcasts), and every other
\* pair of lengths raises.
where(condition, x, y, broadcasts) ==
  IF Len(x) = Len(condition)
    THEN [ok |-> TRUE, out |-> [i \in 1..Len(condition) |-> IF condition[i] THEN x[i] ELSE y]]
  ELSE IF Len(x) = 1 /\ broadcasts
    THEN [ok |-> TRUE, out |-> [i \in 1..Len(condition) |-> IF condition[i] THEN x[1] ELSE y]]
  ELSE [ok |-> FALSE, out |-> <<>>]

\* computeDimuonMass: [kind, exc, events]
computeDimuonMass(evs, broadcasts) ==
  LET has_dimuon == [i \in 1..Len(evs) |-> Len(evs[i].Muon) >= 2]
      withTwo == SelectSeq(evs, LAMBDA e : Len(e.Muon) >= 2)
      dimuon_mass == [i \in 1..Len(withTwo) |-> Mass(withTwo[i].Muon[1], withTwo[i].Muon[2])]
      mass == where(has_dimuon, dimuon_mass, Invalid, broadcasts)
  IN  IF ~mass.ok THEN [NoMuRet EXCEPT !.kind = "raise", !.exc = "ValueError"]
      ELSE [NoMuRet EXCEPT
              !.kind = "sample",
              !.events = [i \in 1..Len(evs) |->
                            [Muon |-> evs[i].Muon, eventWeight |-> evs[i].eventWeight,
                             DiMuon_mass |-> mass.out[i]]]]

ComputeDimuonMass(broadcasts) ==
  /\ mu_pc = "loaded"
  /\ UNCHANGED <<sampleVars, treeVars, combVars, resVars, raceVars>>
  /\ mu_ret' = computeDimuonMass(mu_events, broadcasts)
  /\ mu_pc' = IF mu_ret'.kind = "sample" THEN "done" ELSE "raised"
  /\ mu_events' = IF mu_ret'.kind = "sample" THEN mu_ret'.events ELSE mu_events

(***************************************************************************)
(* The specifications.  Spec is one coffea Sample, SpecTree one ROOT Tree  *)
(* built from a definitions file, SpecCombine the merging of histogram     *)
(* objects.  Each leaves the variables of the other two at rest.           *)
(***************************************************************************)
SampleIdle ==
  /\ pc = "new"
  /\ isData = FALSE
  /\ xSection = 1
  /\ file_paths = <<>>
  /\ all_events = <<>>
  /\ nloaded = 0
  /\ events = <<>>
  /\ nevents = 0
  /\ sum_genweight = 0
  /\ lum_weight = RatZero
  /\ selections = <<>>
  /\ op = NoOp
  /\ ret = NoRet

TreeIdle ==
  /\ tree_pc = "parse"
  /\ tree_lines = <<>>
  /\ tree_i = 0
  /\ tree_limit = 0
  /\ blocks = <<>>
  /\ tree_op = NoTreeOp
  /\ tree_ret = NoTreeRet
  /\ tree_sels = <<>>

CombIdle ==
  /\ heap = <<>>
  /\ orig = <<>>
  /\ leaves = <<>>
  /\ comb_op = NoCombOp
  /\ comb_ret = NoCombRet

ResolveIdle ==
  /\ das_cache = [d \in Datasets |-> CacheFile(FALSE, <<>>)]
  /\ res_op = NoResOp
  /\ res_ret = NoResRet

RaceIdle ==
  /\ race_pc = [p \in Procs |-> "done"]
  /\ race_file = CacheFile(FALSE, <<>>)
  /\ race_files = [p \in Procs |-> <<>>]
  /\ race_list = <<>>

DimuonIdle ==
  /\ mu_pc = "none"
  /\ mu_events = <<>>
  /\ mu_ret = NoMuRet

Init == SampleIdle /\ TreeIdle /\ CombIdle /\ ResolveIdle /\ RaceIdle /\ DimuonIdle

Next ==
  \/ \E isdata \in BOOLEAN, xs \in XSections, limit \in FileLimits, das \in DasAnswers :
        SampleInit(isdata, IF isdata THEN 1 ELSE xs, limit, das)
  \/ \E evs \in SeqsUpTo(EventsOf(isData), MaxEvents) : LoadFileOk(evs)
  \/ LoadFileFail
  \/ SampleReady
  \/ \E cut \in Cuts : AddSelection(cut)
  \/ ClearSelections
  \/ \E lumi \in Lumis : GetYield(lumi)
  \/ \E var \in Vars, axis \in Axes, lumi \in Lumis, weight \in Weights :
        GetHist(var, axis, lumi, weight)

Spec == Init /\ [][Next]_vars

\* Tree(fileName, name, isdata, file_limit = limit) on a definitions file.
InitTree ==
  /\ SampleIdle
  /\ CombIdle
  /\ ResolveIdle
  /\ RaceIdle
  /\ DimuonIdle
  /\ tree_pc = "parse"
  /\ tree_lines \in DefinitionFiles
  /\ tree_i = 0
  /\ tree_limit \in FileLimits
  /\ blocks = <<>>
  /\ tree_op = NoTreeOp
  /\ tree_ret = NoTreeRet
  /\ tree_sels = <<>>

NextTree ==
  \/ ParseLine
  \/ ParseEnd
  \/ \E b \in 1..MaxLines, lumi \in TreeLumis, cut \in BlockCuts :
        BlockGetTH1F(b, lumi, AxisFull, cut)
  \/ \E lumi \in TreeLumis, axis \in Axes, cut \in TreeCuts : TreeGetTH1F(lumi, axis, cut)
  \/ \E lumi \in TreeLumis, axis \in Axes, cut \in TreeCuts : TreeGetYields(lumi, axis, cut)

SpecTree == InitTree /\ [][NextTree]_vars

\* A Tree is parsed from one of three definitions files (two Blocks of which
\* one has two Samples; two Blocks of one Sample; no valid line) and then
\* used: selections are set tree-wide and histograms are requested.
InitTreeUse ==
  /\ SampleIdle
  /\ CombIdle
  /\ ResolveIdle
  /\ RaceIdle
  /\ DimuonIdle
  /\ tree_pc = "parse"
  /\ tree_lines \in {<<LineDY_A, LineDY_B, LineData>>, <<LineDY_A, LineTT>>, <<LineComment>>}
  /\ tree_i = 0
  /\ tree_limit \in FileLimits
  /\ blocks = <<>>
  /\ tree_op = NoTreeOp
  /\ tree_ret = NoTreeRet
  /\ tree_sels = <<>>

NextTreeUse ==
  \/ ParseLine
  \/ ParseEnd
  \/ \E selection \in {CutX, CutLow} : TreeSetSelection(selection)
  \/ \E lumi \in TreeLumis, axis \in Axes, cut \in TreeCuts : TreeGetStack(lumi, axis, cut)
  \/ \E lumi \in TreeLumis, axis \in Axes, cut \in TreeCuts : TreeGetTH1F(lumi, axis, cut)
  \/ \E lumi \in TreeLumis, axis \in Axes, cut \in TreeCuts : TreeGetYields(lumi, axis, cut)
  \/ \E b \in 1..MaxLines, lumi \in TreeLumis, cut \in BlockCuts :
        BlockGetTH1F(b, lumi, AxisFull, cut)

SpecTreeUse == InitTreeUse /\ [][NextTreeUse]_vars

\* Three histograms A, B, C of the same binning exist.
InitCombine ==
  /\ SampleIdle
  /\ TreeIdle
  /\ ResolveIdle
  /\ RaceIdle
  /\ DimuonIdle
  /\ orig \in [InputIds -> HistInputs]
  /\ heap = orig
  /\ leaves = [i \in InputIds |-> Leaf(i)]
  /\ comb_op = NoCombOp
  /\ comb_ret = NoCombRet

NextCombine ==
  \/ \E ids \in IdLists(Len(heap)) : CombineHistograms(ids)
  \/ \E ids \in IdLists(Len(heap)) : CloneAndAdd(ids)

SpecCombine == InitCombine /\ [][NextCombine]_vars

\* No cache file yet; Samples are resolved one after the other.  What the
\* catalog client does matters for the locators _loadFiles takes for
\* datasets, what is on disk for the others.
InitResolve ==
  /\ SampleIdle
  /\ TreeIdle
  /\ CombIdle
  /\ RaceIdle
  /\ DimuonIdle
  /\ ResolveIdle

NextResolve ==
  \/ \E dataset \in Datasets, outcome \in QueryOutcomes : GetCachedDASFiles(dataset, outcome)
  \/ \E loc \in Datasets, limit \in FileLimits, outcome \in QueryOutcomes :
        LoadFiles(loc, limit, outcome, <<>>)
  \/ \E loc \in Locators \ Datasets, limit \in FileLimits, listing \in Listings :
        LoadFiles(loc, limit, NoResOp.outcome, listing)
  \/ \E limit \in FileLimits, outcome \in QueryOutcomes : LoadEventsFiles(limit, outcome)

SpecResolve == InitResolve /\ [][NextResolve]_vars

\* Both processes are about to call getCachedDASFiles; there is no cache
\* file.  The catalog has a list of names without trailing white space.
InitRace ==
  /\ SampleIdle
  /\ TreeIdle
  /\ CombIdle
  /\ ResolveIdle
  /\ DimuonIdle
  /\ race_pc = [p \in Procs |-> "start"]
  /\ race_file = CacheFile(FALSE, <<>>)
  /\ race_files = [p \in Procs |-> <<>>]
  /\ race_list \in {l \in {queryDAS(o).files : o \in QueryOutcomes} :
                      l # <<>> /\ \A i \in 1..Len(l) : l[i].pad = ""}

NextRace ==
  \/ \E p \in Procs : RaceExists(p)
  \/ \E p \in Procs : RaceRead(p)
  \/ \E p \in Procs : RaceQuery(p)
  \/ \E p \in Procs : RaceOpen(p)
  \/ \E p \in Procs : RaceFlush(p)
  \/ \E p \in Procs : RaceClose(p)

SpecRace == InitRace /\ [][NextRace]_vars

\* A sample with its events loaded.
InitDimuon ==
  /\ SampleIdle
  /\ TreeIdle
  /\ CombIdle
  /\ ResolveIdle
  /\ RaceIdle
  /\ mu_pc = "loaded"
  /\ mu_events \in SeqsUpTo(DimuonEvents, MaxMuEvents)
  /\ mu_ret = NoMuRet

NextDimuon == \E broadcasts \in BOOLEAN : ComputeDimuonMass(broadcasts)

SpecDimuon == InitDimuon /\ [][NextDimuon]_vars

(***************************************************************************)
(* Reference notions the properties of a Sample are stated with.           *)
(***************************************************************************)
\* event e satisfies the predicate a selection string states
Satisfies(e, cut) ==
  CASE cut = CutNum -> e.Muon # <<>>
    [] cut = CutPt0 -> e.Muon # <<>> /\ e.Muon[1] > 1
    [] cut = CutTrue -> TRUE
    [] cut = CutFalse -> FALSE

\* the events that satisfy the first k selections of sels, in their order
Passing(evs, sels, k) ==
  SelectSeq(evs, LAMBDA e : \A j \in 1..k : Satisfies(e, sels[j]))

\* some selection of sels cannot be evaluated on the view it is given
SelectionFails(evs, sels) ==
  \E k \in 1..Len(sels) :
     /\ sels[k] = CutPt0
     /\ \E i \in 1..Len(Passing(evs, sels, k - 1)) :
           Passing(evs, sels, k - 1)[i].Muon = <<>>

Selected == Passing(events, selections, Len(selections))

Front(s) == SubSeq(s, 1, Len(s) - 1)
Last(s) == s[Len(s)]

\* the sums over the in-range bins of a histogram (all but the two flow bins)
InRangeBins(bins) == SubSeq(bins, 2, Len(bins) - 1)
BinSumW(bins) == RatSum(Map(LAMBDA b : b.w, InRangeBins(bins)))
BinSumW2(bins) == RatSum(Map(LAMBDA b : b.w2, InRangeBins(bins)))

\* the number of entries of the selected events' Muon.pt that fall in bin k
EntriesInBin(axis, k) ==
  Cardinality({ij \in (1..Len(Selected)) \X (1..2) :
                 /\ ij[2] <= Len(Selected[ij[1]].Muon)
                 /\ BinIndex(axis, Selected[ij[1]].Muon[ij[2]]) = k})

(***************************************************************************)
(* C1.  For a constructed simulated Sample the normalization weight times  *)
(* the sum of genWeight over all loaded events is the cross-section, every *)
(* event's eventWeight is its genWeight times that weight, and no call on  *)
(* the constructed Sample changes the weight or the events.  (getYield can *)
(* be called in every state of a constructed Sample, so the first conjunct *)
(* is checked in each of them.)                                            *)
(***************************************************************************)
C1_Normalized ==
  /\ RatMul(lum_weight, RatInt(GenWeightSum(events))) = RatInt(xSection)
  /\ \A i \in 1..Len(events) :
        events[i].eventWeight = RatMul(RatInt(events[i].genWeight), lum_weight)
  /\ sum_genweight = GenWeightSum(events)

C1_NormalizationWeight ==
  [][/\ (pc = "ready" /\ ~isData) => C1_Normalized
     /\ pc = "ready" => (pc' = "ready" /\ lum_weight' = lum_weight
                         /\ events' = events /\ xSection' = xSection)]_vars

C1_Witness ==
  /\ pc = "ready" /\ ~isData /\ xSection = 6
  /\ lum_weight = Rat(3, 2)
  /\ op.name = "getYield" /\ Len(selections) = 2

(***************************************************************************)
(* C2.  As claimed: for a data Sample every entry getHist fills and every  *)
(* selected event of getYield has weight 1, whatever the arguments.        *)
(***************************************************************************)
C2_UnitWeights(anyWeight) ==
  (pc = "ready" /\ isData) =>
     /\ (op.name = "getYield" /\ ret.kind = "yield") =>
           /\ ret.total = RatInt(Len(Selected))
           /\ ret.unc2 = RatInt(Len(Selected))
     /\ (op.name = "getHist" /\ ret.kind = "hist"
           /\ (anyWeight \/ op.weight = NoWeight)) =>
           \A k \in 1..Len(ret.bins) :
              /\ ret.bins[k].w = RatInt(EntriesInBin(op.axis, k))
              /\ ret.bins[k].w2 = RatInt(EntriesInBin(op.axis, k))

C2_AsClaimed == C2_UnitWeights(TRUE)

(***************************************************************************)
(* C2, amended.  For a data Sample, getYield returns (N, sqrt(N)) for the  *)
(* N selected events, and a getHist call without an explicit weight        *)
(* expression fills every entry with weight 1, whatever the selections and *)
(* the lumi.                                                               *)
(***************************************************************************)
C2_DataUnitWeight == C2_UnitWeights(FALSE)

C2_Witness ==
  /\ pc = "ready" /\ isData
  /\ op.name = "getHist" /\ op.weight = NoWeight /\ op.lumi = 2
  /\ ret.kind = "hist" /\ ret.bins[2].w = RatInt(2) /\ ret.bins[3].w = RatInt(2)
  /\ Len(selections) = 1 /\ Len(Selected) = 2

(***************************************************************************)
(* C3.  For a simulated Sample getYield(lumi) returns the total            *)
(* lumi * xSection * (sum of genWeight over the selected events)           *)
(*                 / (sum of genWeight over all loaded events).            *)
(***************************************************************************)
C3_YieldTotal ==
  (pc = "ready" /\ ~isData /\ op.name = "getYield") =>
     IF SelectionFails(events, selections) THEN ret.kind = "raise"
     ELSE /\ ret.kind = "yield"
          /\ ret.total = Rat(op.lumi * xSection * GenWeightSum(Selected),
                             GenWeightSum(events))

C3_Witness ==
  /\ pc = "ready" /\ ~isData /\ op.name = "getYield" /\ ret.kind = "yield"
  /\ op.lumi = 2 /\ xSection = 6
  /\ Len(Selected) = 1 /\ Len(events) = 2
  /\ ret.total = RatInt(-12)

(***************************************************************************)
(* C4.  The total of getYield is the sum of the bin contents of the        *)
(* histogram getHist returns over a range that covers every value, for the *)
(* same selections and the default weight, and the squared uncertainty is  *)
(* the sum of the bins' sums of squared weights.                           *)
(***************************************************************************)
C4_YieldIsHistSum ==
  (pc = "ready" /\ op.name = "getHist" /\ op.weight = NoWeight
     /\ op.axis = AxisFull /\ ret.kind = "hist") =>
     /\ getYield(events, selections, isData, op.lumi).kind = "yield"
     /\ BinSumW(ret.bins) = getYield(events, selections, isData, op.lumi).total
     /\ BinSumW2(ret.bins) = getYield(events, selections, isData, op.lumi).unc2

C8_SelectionListChanges ==
  [][pc = "ready" =>
       /\ \/ selections' = selections
          \/ /\ op'.name = "addSelection"
             /\ selections' = Append(selections, op'.cut)
          \/ /\ op'.name = "clearSelections"
             /\ selections' = <<>>
       /\ op'.name = "addSelection" =>
             /\ selections' = Append(selections, op'.cut)
             /\ ret'.kind = "self"
             /\ events' = events
       /\ op'.name = "clearSelections" => selections' = <<>>
       /\ op'.name \in {"getHist", "getYield"} => selections' = selections]_vars

C8_Witness ==
  /\ pc = "ready" /\ op.name = "addSelection" /\ op.cut = CutPt0
  /\ selections = <<CutTrue, CutPt0>>
  /\ \E i \in 1..Len(events) : events[i].Muon = <<>>

(***************************************************************************)
(* C9.  When a selection cannot be evaluated, getHist and getYield raise   *)
(* (nothing is returned) and the events, their weights and the selection   *)
(* list are as before the call.                                            *)
(***************************************************************************)
C9_EvalErrorPropagates ==
  [][(pc = "ready" /\ op'.name \in {"getHist", "getYield"}
        /\ SelectionFails(events, selections)) =>
       /\ ret'.kind = "raise"
       /\ ret'.bins = <<>>
       /\ events' = events
       /\ selections' = selections
       /\ pc' = "ready"]_vars

C9_Witness ==
  /\ pc = "ready" /\ op.name = "getHist" /\ ret.kind = "raise"
  /\ ret.exc = "IndexError"
  /\ selections = <<CutTrue, CutPt0>>
  /\ SelectionFails(events, selections)

(***************************************************************************)
(* Reference notions for the Tree.                                         *)
(***************************************************************************)
\* The lines read so far that define a Sample.
ValidLines == SelectSeq(SubSeq(tree_lines, 1, tree_i), LAMBDA l : ~IsSkipped(l))

\* All Samples of the Tree, block by block.
AllSamples == Concat([b \in 1..Len(blocks) |-> blocks[b].samples])

\* Bin k of the sum of the Samples' own histograms.
SamplesBin(ss, k) ==
  LET hs == [i \in 1..Len(ss) |->
               Sample_getTH1F(ss[i], tree_op.lumi, tree_op.axis,
                              IF tree_op.cut = "" THEN CutAll ELSE tree_op.cut)]
  IN  [w |-> RatSum([i \in 1..Len(ss) |-> hs[i][k].w]),
       w2 |-> RatSum([i \in 1..Len(ss) |-> hs[i][k].w2])]

\* A Sample's own yield over the range of Tree.getYields: the range bin
\* and the overflow bin of its one-bin histogram.
SampleYield(s) ==
  LET h == Sample_getTH1F(s, tree_op.lumi,
                          [bins |-> 1, lo |-> tree_op.axis.lo, hi |-> tree_op.axis.hi],
                          IF tree_op.cut = "" THEN CutAll ELSE tree_op.cut)
  IN  [total |-> RatAdd(h[2].w, h[3].w), unc2 |-> RatAdd(h[2].w2, h[3].w2)]

(***************************************************************************)
(* C6.  A merged result is the sum over the members.  Whenever             *)
(* Block.getTH1F returns, every bin content of the result is the sum of    *)
(* the member Samples' bin contents and every squared bin error the sum    *)
(* of their squared bin errors; whenever Tree.getTH1F returns, the same    *)
(* holds over all Samples of all Blocks; whenever Tree.getYields returns,  *)
(* the total is the sum of the Samples' yields and the squared             *)
(* uncertainty the sum of their squared uncertainties.  A Tree with at     *)
(* least one Block always returns.                                         *)
(***************************************************************************)
C6_MergeIsSum ==
  (tree_pc = "ready" /\ tree_op.name # "none") =>
    /\ blocks # <<>> => tree_ret.kind # "raise"
    /\ (tree_op.name = "Block.getTH1F" /\ tree_ret.kind = "hist") =>
         \A k \in 1..(tree_op.axis.bins + 2) :
            tree_ret.bins[k] = SamplesBin(blocks[tree_op.block].samples, k)
    /\ (tree_op.name = "Tree.getTH1F" /\ tree_ret.kind = "hist") =>
         \A k \in 1..(tree_op.axis.bins + 2) :
            tree_ret.bins[k] = SamplesBin(AllSamples, k)
    /\ (tree_op.name = "Tree.getYields" /\ tree_ret.kind = "yield") =>
         /\ tree_ret.total = RatSum([i \in 1..Len(AllSamples) |-> SampleYield(AllSamples[i]).total])
         /\ tree_ret.unc2 = RatSum([i \in 1..Len(AllSamples) |-> SampleYield(AllSamples[i]).unc2])

\* A Tree of two Blocks, the first of two Samples, has returned its yields.
C6_Witness ==
  /\ tree_pc = "ready"
  /\ tree_op.name = "Tree.getYields"
  /\ tree_ret.kind = "yield"
  /\ Len(blocks) = 2
  /\ Len(blocks[1].samples) = 2
  /\ tree_ret.unc2 # SampleYield(AllSamples[1]).unc2
  /\ SampleYield(AllSamples[2]).unc2 # RatZero

(***************************************************************************)
(* C7.  Merging is independent of order and grouping and does not touch    *)
(* its inputs.  The input histograms A, B, C keep the bins they were       *)
(* created with, and every histogram produced by combineHistograms or by   *)
(* the Clone/Add loop, from inputs or from earlier results in any order,   *)
(* has in every bin the content and the squared error obtained by adding   *)
(* up the inputs that went into it; so two results made of the same        *)
(* inputs are identical.  (Sums are exact here.)                           *)
(***************************************************************************)
SumOfLeaves(lv, k) ==
  [w |-> RatSum([i \in 1..3 |-> RatMul(RatInt(lv[i]), orig[i][k].w)]),
   w2 |-> RatSum([i \in 1..3 |-> RatMul(RatInt(lv[i]), orig[i][k].w2)])]

C7_MergeOrderFree ==
  orig # <<>> =>
    /\ \A i \in InputIds : heap[i] = orig[i]
    /\ \A c \in 1..Len(heap) : \A k \in 1..Len(heap[c]) :
          heap[c][k] = SumOfLeaves(leaves[c], k)
    /\ \A c, d \in 1..Len(heap) : leaves[c] = leaves[d] => heap[c] = heap[d]

\* (B + C) was merged first and A with that result afterwards; the inputs
\* are three different histograms.
C7_Witness ==
  /\ Len(heap) = 5
  /\ orig[1] # orig[2] /\ orig[2] # orig[3] /\ orig[1] # orig[3]
  /\ leaves[4] = [j \in InputIds |-> IF j = 1 THEN 0 ELSE 1]
  /\ leaves[5] = [j \in InputIds |-> 1]
  /\ comb_op.name = "combineHistograms"
  /\ comb_ret.id = 5

(***************************************************************************)
(* C10.  Grouping by block name.  While and after the definitions file is  *)
(* parsed, the Blocks have pairwise distinct names, stand in the order in  *)
(* which their names first occur among the lines read so far that define   *)
(* a Sample, and each Block holds exactly the Samples of the lines         *)
(* carrying its name, in file order.                                       *)
(***************************************************************************)
BlockNameFirstAt(i) ==
  /\ i \in 1..Len(ValidLines)
  /\ \A j \in 1..(i - 1) : ValidLines[j][1] # ValidLines[i][1]

FirstOccurrences ==
  SelectSeq([i \in 1..Len(ValidLines) |-> IF BlockNameFirstAt(i) THEN ValidLines[i][1] ELSE ""],
            LAMBDA n : n # "")

LinesOfBlock(name) == SelectSeq(ValidLines, LAMBDA l : l[1] = name)

C10_BlocksGroupLines ==
  tree_pc \in {"parse", "ready"} =>
    /\ \A a, b \in 1..Len(blocks) : a # b => blocks[a].name # blocks[b].name
    /\ [b \in 1..Len(blocks) |-> blocks[b].name] = FirstOccurrences
    /\ \A b \in 1..Len(blocks) :
         LET ls == LinesOfBlock(blocks[b].name)
         IN  /\ Len(blocks[b].samples) = Len(ls)
             /\ \A i \in 1..Len(ls) :
                  /\ blocks[b].samples[i].name = ls[i][3]
                  /\ blocks[b].samples[i].location = ls[i][5]

\* A file whose first and third line carry the same block name is parsed.
C10_Witness ==
  /\ tree_pc = "ready"
  /\ tree_lines = <<LineDY_A, LineTT, LineDY_B>>
  /\ Len(blocks) = 2
  /\ Len(blocks[1].samples) = 2
  /\ blocks[1].samples[2].name = "dyB"
  /\ blocks[2].name = "TT"

(***************************************************************************)
(* C11.  A line of fewer than 7 fields is passed over.  Reading such a     *)
(* line raises nothing and changes no Block, and at every point of the     *)
(* parse the Blocks, and the error if the parse has stopped, are those     *)
(* that parsing the same lines without the short ones gives.               *)
(***************************************************************************)
IsMalformed(line) == Len(line) > 0 /\ line[1] # "#" /\ Len(line) < 7

LinesRead == SubSeq(tree_lines, 1, IF tree_pc = "failed" THEN tree_i + 1 ELSE tree_i)

WithoutMalformed(lines) == SelectSeq(lines, LAMBDA l : ~IsMalformed(l))

C11_MalformedLineSkipped ==
  LET ref == parseFileName(<<>>, WithoutMalformed(LinesRead), tree_limit)
  IN  /\ blocks = ref.blocks
      /\ (tree_pc = "failed") = ~ref.ok
      /\ tree_pc = "failed" => tree_ret = TreeRaise(ref.exc)
      /\ \A b \in 1..Len(blocks) : blocks[b].samples # <<>>
      /\ (tree_pc = "failed") => ~IsMalformed(tree_lines[tree_i + 1])

\* A short line stood between two lines of the same Block and the parse
\* went through.
C11_Witness ==
  /\ tree_pc = "ready"
  /\ tree_lines = <<LineDY_A, LineShort, LineDY_B>>
  /\ Len(blocks) = 1
  /\ Len(blocks[1].samples) = 2

\* C12: when file_limit is greater than zero and the locator is a catalog
\* dataset or an explicit glob pattern (local, /eos/ or root://), the
\* resolved file list holds at most file_limit entries.
C12_AtMostFileLimit ==
  (/\ res_ret.kind = "files"
   /\ res_op.file_limit > 0
   /\ (isDASDataset(res_op.location) \/ HasStar(res_op.location)))
  => Len(res_ret.files) <= res_op.file_limit

\* C13: a Sample whose resolved file list is empty is not constructed:
\* Sample.__init__ and Sample._loadEvents raise RuntimeError for every kind
\* of locator, a failed catalog query included, and hand on a list only
\* when it holds a file.
C13_EmptyListRaises ==
  res_op.name \in {"Sample._loadFiles", "Sample._loadEvents"} =>
    /\ res_ret.kind \in {"files", "raise"}
    /\ res_ret.kind = "files" => res_ret.files # <<>>
    /\ res_ret.kind = "raise" => res_ret.exc = "RuntimeError" /\ res_ret.files = <<>>
    /\ (/\ isDASDataset(res_op.location)
        /\ ~res_op.cached
        /\ queryDAS(res_op.outcome).files = <<>>) => res_ret.kind = "raise"

C13_Witness ==
  /\ res_op.name = "Sample._loadFiles"
  /\ res_op.outcome.kind = "error"
  /\ ~res_op.cached
  /\ res_ret.kind = "raise"

\* C13, in a Tree: the line whose Sample finds no file ends the parse with
\* that error, and no Block holds a Sample of that line.
C13_TreeParseAborts ==
  /\ \A b \in 1..Len(blocks) : \A s \in 1..Len(blocks[b].samples) :
       blocks[b].samples[s].nfiles > 0
  /\ \A i \in 1..Len(LinesRead) :
       (~IsSkipped(LinesRead[i]) /\ loadFiles(LinesRead[i][5], tree_limit) = <<>>) =>
         /\ tree_pc = "failed"
         /\ i = tree_i + 1
         /\ tree_ret = TreeRaise("RuntimeError")

\* C14, what the code keeps: once the cache file of a dataset is there,
\* every later call returns the lines of the file with the white space
\* around each name removed, in the order of the file, without a query, and
\* leaves the file as it is.  A query that fails or yields nothing writes no
\* file, so the next call queries again.
C14_CachedListReturned ==
  [][\A d \in Datasets :
       /\ das_cache[d].exists =>
            /\ das_cache'[d] = das_cache[d]
            /\ res_op'.location = d =>
                 /\ ~res_ret'.queried
                 /\ res_ret'.kind = "files" =>
                      \E n \in 0..Len(das_cache[d].lines) :
                        /\ (n = Len(das_cache[d].lines) \/ (n = res_op'.file_limit /\ n > 0))
                        /\ res_ret'.files =
                             [i \in 1..n |-> [das_cache[d].lines[i] EXCEPT !.pad = ""]]
       /\ (~das_cache[d].exists /\ res_op'.location = d) =>
            /\ res_ret'.queried
            /\ das_cache'[d].exists = (queryDAS(res_op'.outcome).files # <<>>)
            /\ das_cache'[d].exists => das_cache'[d].lines = queryDAS(res_op'.outcome).files
       /\ res_op'.location # d => das_cache'[d] = das_cache[d]
    ]_vars

\* C14: once a query has returned a list that is not empty, every later
\* getCachedDASFiles call for the dataset returns exactly that list, in the
\* same order.
C14_SameListAgain ==
  (res_op.name = "getCachedDASFiles" /\ res_op.cached) =>
    res_ret.files = das_cache[res_op.location].lines

\* C15: when two processes call getCachedDASFiles for the same dataset at
\* the same time with no cache file at the start, each of them returns the
\* complete list of the catalog, whatever the interleaving: none reads an
\* empty or partly written cache file.
C15_EachReturnsCompleteList ==
  \A p \in Procs : race_pc[p] = "done" => race_files[p] = race_list

\* C16: a catalog query on a machine without the catalog client ends in an
\* error of its own (CatalogUnavailable); a query whose client exits with
\* an error returns an empty list and prints a warning; the caller can tell
\* the two apart.
C16_MissingClientIsError ==
  (res_op.name = "getCachedDASFiles" /\ ~res_op.cached) =>
    /\ res_op.outcome.kind = "missing" => res_ret.kind = "raise"
    /\ res_op.outcome.kind = "error" =>
         /\ res_ret.kind = "files"
         /\ res_ret.files = <<>>
         /\ res_ret.printed = "DAS query failed"

\* C17: the construction of a Sample fails whenever zero events resolve:
\* every Sample that exists, data or simulated, holds at least one event.
C17_NoSampleWithoutEvents ==
  pc = "ready" => nevents > 0

\* C18: the construction of a simulated Sample whose sum of genWeight is
\* zero or negative fails: no simulated Sample exists whose normalization
\* comes from a sum that is not positive.
C18_PositiveGenWeightSum ==
  (pc = "ready" /\ ~isData) => sum_genweight > 0

\* C19: the file list a Sample resolves holds no file twice, for every kind
\* of locator and also when the list comes from the cache file.
C19_NoFileTwice ==
  res_ret.kind = "files" =>
    \A i, j \in 1..Len(res_ret.files) : res_ret.files[i] = res_ret.files[j] => i = j

\* C20: computeDimuonMass gives every event of the sample a DiMuon_mass, in
\* event order: the invariant mass of the two leading muons when the event
\* has at least two muons, -999 otherwise, for any mix of the two kinds of
\* event; the number of events and the fields they had are unchanged.
C20_DimuonMassPerEvent ==
  mu_pc \in {"done", "raised"} =>
    /\ mu_pc = "done"
    /\ \A i \in 1..Len(mu_events) :
         mu_events[i].DiMuon_mass =
           IF Len(mu_events[i].Muon) >= 2
             THEN Mass(mu_events[i].Muon[1], mu_events[i].Muon[2])
             ELSE Invalid

(***************************************************************************)
(* C21.  With selections that can be evaluated, _applySelections returns   *)
(* the loaded events that satisfy every selection, in their order, each    *)
(* selection being evaluated on the view the earlier ones left; the stored *)
(* events are not changed by getYield, and a getYield call that follows a  *)
(* getYield call with the same lumi returns the same result.               *)
(***************************************************************************)
C21_SelectionsNarrow ==
  [][(pc = "ready" /\ pc' = "ready") =>
       /\ ~SelectionFails(events, selections) =>
            applySelections(events, selections) = [ok |-> TRUE, events |-> Selected]
       /\ op'.name = "getYield" =>
            /\ events' = events
            /\ ~SelectionFails(events, selections) =>
                 /\ ret'.kind = "yield"
                 /\ ret'.total = RatSum(eventWeights(Selected, isData, op'.lumi))
            /\ (op.name = "getYield" /\ op.lumi = op'.lumi) => ret' = ret]_vars

C21_Witness ==
  /\ pc = "ready" /\ op.name = "getYield" /\ ret.kind = "yield"
  /\ selections = <<CutNum, CutPt0>>
  /\ EvalFails(CutPt0, events)
  /\ Len(Selected) = 1

\* a locator that starts with 'root://' or with '/eos/'
IsRemoteLocator(loc) ==
  /\ Len(loc) >= 3
  /\ \/ loc[1] = "root:" /\ loc[2] = ""
     \/ loc[1] = "" /\ loc[2] = "eos"

\* C22: a locator that starts with 'root://' or with '/eos/' is resolved by
\* the remote-storage branch: neither the catalog nor its cache is asked
\* for it, and every file it resolves to is in the root:// form.
C22_RemoteLocatorSkipsCatalog ==
  (res_op.name = "Sample._loadFiles" /\ IsRemoteLocator(res_op.location)) =>
    /\ ~res_ret.queried
    /\ ~res_op.cached
    /\ \A i \in 1..Len(res_ret.files) :
         \/ res_ret.files[i].prefix = "root://eoscms.cern.ch/"
         \/ res_ret.files[i].prefix = "" /\ res_ret.files[i].path[1] = "root:"

(***************************************************************************)
(* Reference notions for a Tree in use.                                    *)
(***************************************************************************)
\* event e satisfies the predicate a cut string states
Holds(e, cut) ==
  CASE cut = CutX -> e.x > 1
    [] cut = CutLow -> e.x < 5
    [] OTHER -> TRUE

\* the events of evs that satisfy every selection of sels and the cut
KeptBy(evs, sels, cut) ==
  SelectSeq(evs, LAMBDA e : Holds(e, cut) /\ \A i \in 1..Len(sels) : Holds(e, sels[i]))

\* Sample s as constructed, with the events on its files that satisfy every
\* tree-wide selection set so far and the cut
Narrowed(s, cut) ==
  [s EXCEPT !.rdf = KeptBy(Concat(loadFiles(s.location, tree_limit)), tree_sels, cut)]

\* the bins of the sum of the histograms of the Samples ss, each made of
\* its events narrowed by the selections set so far and the request's cut
NarrowedBins(ss) ==
  [k \in 1..(tree_op.axis.bins + 2) |->
     LET hs == [i \in 1..Len(ss) |->
                  Sample_getTH1F(Narrowed(ss[i], tree_op.cut), tree_op.lumi,
                                 tree_op.axis, CutAll)]
     IN  [w |-> RatSum([i \in 1..Len(ss) |-> hs[i][k].w]),
          w2 |-> RatSum([i \in 1..Len(ss) |-> hs[i][k].w2])]]

\* the Blocks as parseFileName made them
ParsedBlocks == parseFileName(<<>>, tree_lines, tree_limit).blocks

(***************************************************************************)
(* C23.  Whatever setSelection and histogram calls were made on a parsed   *)
(* Tree: the Blocks and their Sample lists are those of the parse, every   *)
(* Sample holds its events narrowed by every selection set so far and by   *)
(* nothing else (the cut of a request does not stay), and a histogram that *)
(* is returned is made of the events that satisfy every selection set so   *)
(* far and the cut of the request.                                         *)
(***************************************************************************)
C23_TreeWideSelection ==
  tree_pc = "ready" =>
    /\ blocks = [b \in 1..Len(ParsedBlocks) |->
                   [ParsedBlocks[b] EXCEPT !.samples =
                      [s \in 1..Len(ParsedBlocks[b].samples) |->
                         Narrowed(ParsedBlocks[b].samples[s], CutAll)]]]
    /\ (tree_op.name = "Tree.getTH1F" /\ tree_ret.kind = "hist") =>
         tree_ret.bins = NarrowedBins(AllSamples)
    /\ (tree_op.name = "Block.getTH1F" /\ tree_ret.kind = "hist") =>
         tree_ret.bins = NarrowedBins(blocks[tree_op.block].samples)
    /\ (tree_op.name = "Tree.getStack" /\ tree_ret.kind = "stack") =>
         \A b \in 1..Len(blocks) :
            tree_ret.layers[b].bins = NarrowedBins(blocks[b].samples)

\* Two selections were set on a Tree of two Blocks, then a histogram with a
\* cut of its own was returned, then one without.
C23_Witness ==
  /\ tree_pc = "ready"
  /\ Len(blocks) = 2
  /\ tree_sels = <<CutLow, CutX>>
  /\ tree_op.name = "Tree.getTH1F" /\ tree_op.cut = "" /\ tree_ret.kind = "hist"
  /\ \E b \in 1..2 : \E s \in 1..Len(blocks[b].samples) :
        Len(blocks[b].samples[s].rdf) < Len(ParsedBlocks[b].samples[s].rdf)

(***************************************************************************)
(* C24.  A stack that Tree.getStack returns has one layer per Block, in    *)
(* the order of the Blocks; each layer has the bins, the title and the     *)
(* fill colour of that Block's getTH1F for the same luminosity, axis and   *)
(* cut; and bin by bin the layers add up to the histogram Tree.getTH1F     *)
(* returns for the same arguments.  A Tree with a Block returns a stack.   *)
(***************************************************************************)
C24_StackLayers ==
  (tree_pc = "ready" /\ tree_op.name = "Tree.getStack") =>
    LET c == IF tree_op.cut = "" THEN CutAll ELSE tree_op.cut
        layers == tree_ret.layers
        whole == Tree_getTH1F(blocks, tree_op.lumi, tree_op.axis, tree_op.cut)
    IN  /\ blocks # <<>> => tree_ret.kind = "stack"
        /\ tree_ret.kind = "stack" =>
             /\ Len(layers) = Len(blocks)
             /\ \A b \in 1..Len(blocks) :
                  LET h == Block_getTH1F(blocks[b], tree_op.lumi, tree_op.axis, c)
                  IN  /\ h.kind = "hist"
                      /\ layers[b].bins = h.bins
                      /\ layers[b].title = h.title
                      /\ layers[b].fill = h.color
             /\ whole.kind = "hist"
             /\ \A k \in 1..(tree_op.axis.bins + 2) :
                  /\ whole.bins[k].w = RatSum([b \in 1..Len(layers) |-> layers[b].bins[k].w])
                  /\ whole.bins[k].w2 = RatSum([b \in 1..Len(layers) |-> layers[b].bins[k].w2])

\* A stack of two layers that differ, made with a cut, on a Tree whose
\* first Block has two Samples.
C24_Witness ==
  /\ tree_pc = "ready"
  /\ tree_op.name = "Tree.getStack" /\ tree_op.cut = CutX
  /\ tree_ret.kind = "stack"
  /\ Len(tree_ret.layers) = 2
  /\ Len(blocks[1].samples) = 2
  /\ tree_ret.layers[1].bins # tree_ret.layers[2].bins
  /\ \E k \in 2..(tree_op.axis.bins + 1) : tree_ret.layers[2].bins[k].w # RatZero

(***************************************************************************)
(* Reference notions for the range of a histogram.                         *)
(***************************************************************************)
\* the weight Sample.getTH1F gives event e of Sample s
EventWeight(s, e, lumi) ==
  IF s.isData = 0 THEN RatMul(RatInt(lumi), RatMul(s.lumWeight, RatInt(e.genWeight)))
  ELSE RatOne

\* the weights of the events of Sample s that pass the cut and satisfy inBin
WeightsWhere(s, lumi, cut, inBin(_)) ==
  LET evs == SelectSeq(s.rdf, LAMBDA e : Holds(e, cut) /\ inBin(e.x))
  IN  [i \in 1..Len(evs) |-> EventWeight(s, evs[i], lumi)]

\* x lies in the j-th of the axis.bins equal parts of [axis.lo, axis.hi)
InPart(axis, j, x) ==
  /\ (j - 1) * (axis.hi - axis.lo) <= (x - axis.lo) * axis.bins
  /\ (x - axis.lo) * axis.bins < j * (axis.hi - axis.lo)

\* the bins of Sample s filled as a histogram with flow bins is: part j of
\* the range in bin j + 1, the values below the range in bin 1, the values
\* from axis.hi on in the last bin
PlainBins(s, lumi, axis, cut) ==
  [k \in 1..(axis.bins + 2) |->
     LET ws == WeightsWhere(s, lumi, cut,
                 LAMBDA x : IF k = 1 THEN x < axis.lo
                            ELSE IF k = axis.bins + 2 THEN x >= axis.hi
                            ELSE InPart(axis, k - 1, x))
     IN  [w |-> RatSum(ws), w2 |-> RatSum(Map(RatSq, ws))]]

(***************************************************************************)
(* C25.  The histogram Sample.getTH1F makes of a Sample of a parsed Tree   *)
(* is the plain one: each bin of the range holds the weights of the        *)
(* selected events whose value lies in its part of the range and of no     *)
(* other event, and the events below and above the range are held by the   *)
(* underflow and the overflow bin, not by a bin of the range.  The same    *)
(* holds of what Block.getTH1F and Tree.getTH1F return, Sample by Sample   *)
(* added up.                                                               *)
(***************************************************************************)
C25_OutsideRangeNotBinned ==
  (tree_pc = "ready" /\ tree_op.name \in {"Block.getTH1F", "Tree.getTH1F"}) =>
    LET c == IF tree_op.name = "Tree.getTH1F" /\ tree_op.cut = "" THEN CutAll ELSE tree_op.cut
        ss == IF tree_op.name = "Tree.getTH1F" THEN AllSamples
              ELSE IF tree_op.block \in 1..Len(blocks) THEN blocks[tree_op.block].samples
              ELSE <<>>
        plain == [i \in 1..Len(ss) |-> PlainBins(ss[i], tree_op.lumi, tree_op.axis, c)]
    IN  /\ ~ofBin
        /\ \A i \in 1..Len(ss) :
             Sample_getTH1F(ss[i], tree_op.lumi, tree_op.axis, c) = plain[i]
        /\ tree_ret.kind = "hist" =>
             \A k \in 1..(tree_op.axis.bins + 2) :
                /\ tree_ret.bins[k].w = RatSum([i \in 1..Len(ss) |-> plain[i][k].w])
                /\ tree_ret.bins[k].w2 = RatSum([i \in 1..Len(ss) |-> plain[i][k].w2])

\* A histogram was returned for a range that a selected event lies above
\* and another lies below; both flow bins are filled.
C25_Witness ==
  /\ tree_pc = "ready"
  /\ tree_op.name = "Tree.getTH1F" /\ tree_op.axis = AxisPart
  /\ tree_ret.kind = "hist"
  /\ tree_ret.bins[1].w # RatZero
  /\ tree_ret.bins[tree_op.axis.bins + 2].w # RatZero
  /\ tree_ret.bins[2].w # RatZero
  /\ \E i \in 1..Len(AllSamples) : \E j \in 1..Len(AllSamples[i].rdf) :
        AllSamples[i].rdf[j].x >= tree_op.axis.hi

\* C25 for the coffea Sample: in the histogram getHist returns, a bin of
\* the range holds the weights of the entries whose value lies in its part
\* of the range and of no other entry.
C25_GetHistOutsideRange ==
  (pc = "ready" /\ op.name = "getHist" /\ ret.kind = "hist") =>
    LET values == evalVar(op.var, Selected)
        vs == flatten(values)
        ws == flatten(histWeights(Selected, isData, op.lumi, op.weight, values))
    IN  \A k \in 2..(op.axis.bins + 1) :
          LET in == {i \in 1..Len(vs) : InPart(op.axis, k - 1, vs[i])}
              part == SelectSeq([i \in 1..Len(vs) |-> [i |-> i, w |-> ws[i]]],
                                LAMBDA r : r.i \in in)
          IN  /\ ret.bins[k].w = RatSum([i \in 1..Len(part) |-> part[i].w])
              /\ ret.bins[k].w2 = RatSum([i \in 1..Len(part) |-> RatSq(part[i].w)])

\* getHist returned a histogram over a range that an entry lies outside of
C25_GetHistWitness ==
  /\ pc = "ready" /\ op.name = "getHist" /\ ret.kind = "hist"
  /\ op.axis = AxisPart
  /\ ret.bins[1].w # RatZero
  /\ ret.bins[2].w # RatZero

(***************************************************************************)
(* C26.  As claimed: the total Tree.getYields returns is the sum of the    *)
(* weights of the selected events with xmin <= x < xmax, and the squared   *)
(* uncertainty the sum of their squared weights; no event with x >= xmax   *)
(* or x < xmin is counted.                                                 *)
(***************************************************************************)
C26_YieldsWithinRange ==
  (tree_pc = "ready" /\ tree_op.name = "Tree.getYields" /\ tree_ret.kind = "yield") =>
    LET c == IF tree_op.cut = "" THEN CutAll ELSE tree_op.cut
        within(s) == WeightsWhere(s, tree_op.lumi, c,
                                  LAMBDA x : tree_op.axis.lo <= x /\ x < tree_op.axis.hi)
    IN  /\ tree_ret.total =
             RatSum([i \in 1..Len(AllSamples) |-> RatSum(within(AllSamples[i]))])
        /\ tree_ret.unc2 =
             RatSum([i \in 1..Len(AllSamples) |-> RatSum(Map(RatSq, within(AllSamples[i])))])

\* What the code does: the events from xmax on are counted as well, the
\* events below xmin are not.
C26_YieldsIncludeOverflow ==
  (tree_pc = "ready" /\ tree_op.name = "Tree.getYields" /\ tree_ret.kind = "yield") =>
    LET c == IF tree_op.cut = "" THEN CutAll ELSE tree_op.cut
        from(s) == WeightsWhere(s, tree_op.lumi, c, LAMBDA x : tree_op.axis.lo <= x)
    IN  /\ tree_ret.total =
             RatSum([i \in 1..Len(AllSamples) |-> RatSum(from(AllSamples[i]))])
        /\ tree_ret.unc2 =
             RatSum([i \in 1..Len(AllSamples) |-> RatSum(Map(RatSq, from(AllSamples[i])))])

(***************************************************************************)
(* C27.  While a definitions file is parsed and in the Tree it gives,      *)
(* every Block holds at least one Sample, so Block.getTH1F on a Block of   *)
(* the Tree returns a histogram and never fails for want of a first one;   *)
(* the Tree has a Block exactly if a line that defines a Sample was read,  *)
(* so a file without such a line gives a Tree of zero Blocks.              *)
(***************************************************************************)
C27_BlockHasSample ==
  /\ \A b \in 1..Len(blocks) : Len(blocks[b].samples) >= 1
  /\ tree_op.name = "Block.getTH1F" =>
       /\ tree_ret.kind = "hist"
       /\ tree_ret.bins # <<>>
  /\ tree_pc = "ready" => (blocks = <<>> <=> ValidLines = <<>>)

\* A Block of two Samples has returned its histogram; and a file of lines
\* that define nothing has given a Tree.
C27_Witness ==
  /\ tree_pc = "ready"
  /\ tree_op.name = "Block.getTH1F"
  /\ tree_ret.kind = "hist"
  /\ Len(blocks) = 2
  /\ Len(blocks[tree_op.block].samples) = 2

C27_WitnessNoBlock ==
  /\ tree_pc = "ready"
  /\ Len(tree_lines) = 2
  /\ ValidLines = <<>>
  /\ blocks = <<>>

=============================================================================
